---------------------------- MODULE Spec2Model ----------------------------
(***************************************************************************)
(* Model of the FbRpc peer of src/src/index.ts: the envelope codec, the    *)
(* pending-request table, the timeout checker, the dispatcher with its     *)
(* guard chains, and clean.                                                *)
(*                                                                         *)
(* Conventions.                                                            *)
(*  - A Uint8Array is a sequence of numbers in 0..255; JavaScript offset k *)
(*    is index k+1.                                                        *)
(*  - A JavaScript string is the sequence of its code points.              *)
(*  - Time is performance.now() in milliseconds.  The interval timer of    *)
(*    the timeout checker fires exactly when it is due: the clock cannot   *)
(*    pass the due time of a scheduled checker without the tick running.   *)
(*  - An operation of the peer is an operator from a peer record (the      *)
(*    fields of the object, the global id counter, the promises it made)   *)
(*    to a peer record; an action applies one operation.  This lets a sink *)
(*    call back into the peer from inside request.                         *)
(*  - The FlatBuffers toolkit is external: whether unpackFB throws on a    *)
(*    body, and what guards and handlers do, are inputs of the action.     *)
(***************************************************************************)
EXTENDS Integers, Sequences, FiniteSets, TLC

\* ------------------------------------------------------------------ bounds

\* Number of request calls in a run.
MaxRequests == 2
\* Number of registerHandler calls in a run.
MaxHandlers == 2
\* Guards appended to one handler entry.
MaxGuards == 2
\* Asynchronous handler results outstanding at once.
MaxInflight == 1
\* The clock stops here; request is not called so late that its waiter could
\* not expire before the clock stops.
MaxTime == 250
\* The clock advances by at most this many milliseconds in one step.
TimeQuantum == 50
\* options.requestTimeout of the peer under test.
RequestTimeoutMs == 100
\* The length of the longest body given to encodeMessage: it needs two bytes.
LongBodyLen == 260
\* The sink throws on at most this many of its first calls in one dispatch.
MaxSinkThrows == 2

\* --------------------------------------------------------- program constants

HEADER_SIZE == 12
TIMEOUT_CHECK_INTERVAL_MS == 100

MessageType_Request == 0
MessageType_Notification == 1
MessageType_Response == 2
MessageType_ErrorResponse == 3

GuardType_Guard == 0
GuardType_RequestGuard == 1
GuardType_AppDataGuard == 2

PARSE_ERROR_code == 1000
INVALID_REQUEST_code == 1001
METHOD_NOT_FOUND_code == 1002
INTERNAL_ERROR_code == 1004
REQUEST_TIMEOUT_code == 1005
GUARD_ERROR_code == 1006
APPLICATION_ERROR_code == 1007

\* 'Failed to parse message'
PARSE_ERROR_message ==
    <<70, 97, 105, 108, 101, 100, 32, 116, 111, 32, 112, 97, 114, 115, 101, 32,
      109, 101, 115, 115, 97, 103, 101>>
\* 'Invalid request'
INVALID_REQUEST_message ==
    <<73, 110, 118, 97, 108, 105, 100, 32, 114, 101, 113, 117, 101, 115, 116>>
\* 'Method not found'
METHOD_NOT_FOUND_message ==
    <<77, 101, 116, 104, 111, 100, 32, 110, 111, 116, 32, 102, 111, 117, 110, 100>>
\* 'Internal error'
INTERNAL_ERROR_message ==
    <<73, 110, 116, 101, 114, 110, 97, 108, 32, 101, 114, 114, 111, 114>>
\* 'Request has timed-out'
REQUEST_TIMEOUT_message ==
    <<82, 101, 113, 117, 101, 115, 116, 32, 104, 97, 115, 32, 116, 105, 109, 101,
      100, 45, 111, 117, 116>>
\* 'Message too short'
TooShortText ==
    <<77, 101, 115, 115, 97, 103, 101, 32, 116, 111, 111, 32, 115, 104, 111, 114, 116>>
\* 'Incomplete message'
IncompleteText ==
    <<73, 110, 99, 111, 109, 112, 108, 101, 116, 101, 32, 109, 101, 115, 115, 97,
      103, 101>>

\* ------------------------------------------------------------------- codec

Min(a, b) == IF a <= b THEN a ELSE b

\* A JavaScript integer that may not fit 31 bits (an id, a body length read
\* from the wire) is the pair <<high, low>> of value high * 65536 + low, with
\* low in 0..65535: -1 is <<-1, 65535>> and 2^32 - 1 is <<65535, 65535>>.
Wide(v) == <<v \div 65536, v % 65536>>

\* x >>> 0 (ToUint32) of a wide integer.
ToUint32(w) == <<w[1] % 65536, w[2]>>

\* x + 1 of a wide integer.
WidePlusOne(w) == IF w[2] = 65535 THEN <<w[1] + 1, 0>> ELSE <<w[1], w[2] + 1>>

\* Storing a number into a Uint8Array element keeps its low 8 bits.
ToUint8(v) == v % 256

\* val >> k for an integer val within the int32 range: an arithmetic shift.
Sar(val, k) == val \div (2 ^ k)

\* buf[offset] where a read past the end gives undefined, which the bitwise
\* operators take as 0.
ByteAt(buf, offset) == IF offset + 1 <= Len(buf) THEN buf[offset + 1] ELSE 0

\* The two bytes write16 stores at buf[offset], buf[offset+1].
write16(val) == <<ToUint8(val), ToUint8(Sar(val, 8))>>

\* The four bytes write32 stores at buf[offset .. offset+3], of a wide integer:
\* val, val >> 8, val >> 16, val >> 24, each truncated to 8 bits.
write32(val) ==
    <<ToUint8(val[2]), ToUint8(Sar(val[2], 8)), ToUint8(val[1]), ToUint8(Sar(val[1], 8))>>

read16(buf, offset) == ByteAt(buf, offset) + 256 * ByteAt(buf, offset + 1)

\* The bitwise or of the four shifted bytes, an int32: the top byte is signed.
readI32(buf, offset) ==
    LET b3 == ByteAt(buf, offset + 3) IN
    ByteAt(buf, offset) + 256 * ByteAt(buf, offset + 1) + 65536 * ByteAt(buf, offset + 2)
    + 16777216 * (IF b3 >= 128 THEN b3 - 256 ELSE b3)

\* Faulty variant: the unsigned shift is left out, the top byte stays signed.
read32_signed(buf, offset) ==
    LET b3 == ByteAt(buf, offset + 3) IN
    <<ByteAt(buf, offset + 2) + 256 * (IF b3 >= 128 THEN b3 - 256 ELSE b3),
      ByteAt(buf, offset) + 256 * ByteAt(buf, offset + 1)>>

\* The same bits read unsigned (>>> 0), as a wide integer.
read32(buf, offset) ==
    <<ByteAt(buf, offset + 2) + 256 * ByteAt(buf, offset + 3),
      ByteAt(buf, offset) + 256 * ByteAt(buf, offset + 1)>>

\* length < HEADER_SIZE + bodyLen for a wide bodyLen; lengths stay below 65536.
ShorterThan(length, base, bodyLen) == bodyLen[1] > 0 \/ length < base + bodyLen[2]

\* data.subarray(begin, end) with 0 <= begin; end is clamped to the length.
subarray(data, begin, end) ==
    LET e == Min(end, Len(data)) IN
    IF begin >= e THEN <<>> ELSE SubSeq(data, begin + 1, e)

encodeMessage(type, id, method, body) ==
    <<ToUint8(type), 0>> \o write16(method) \o write32(id) \o write32(Wide(Len(body)))
    \o body

encodeVoidResponse(id, method) ==
    <<MessageType_Response, 0>> \o write16(method) \o write32(id) \o <<0, 0, 0, 0>>

\* A string is the sequence of its UTF-16 code units.
IsHighSurrogate(c) == c >= 55296 /\ c <= 56319
IsLowSurrogate(c) == c >= 56320 /\ c <= 57343

\* The UTF-8 bytes of one scalar value.
utf8Bytes(cp) ==
    IF cp < 128 THEN <<cp>>
    ELSE IF cp < 2048 THEN <<192 + (cp \div 64), 128 + (cp % 64)>>
    ELSE IF cp < 65536
         THEN <<224 + (cp \div 4096), 128 + ((cp \div 64) % 64), 128 + (cp % 64)>>
         ELSE <<240 + (cp \div 262144), 128 + ((cp \div 4096) % 64),
                128 + ((cp \div 64) % 64), 128 + (cp % 64)>>

\* TextEncoder.encode: the string is first converted to scalar values (a
\* surrogate pair is one code point, a surrogate with no partner becomes
\* U+FFFD), then encoded as UTF-8.
RECURSIVE textEncode(_)
textEncode(s) ==
    IF s = <<>> THEN <<>>
    ELSE LET c == Head(s) IN
         IF IsHighSurrogate(c) /\ Len(s) >= 2 /\ IsLowSurrogate(s[2])
         THEN utf8Bytes(65536 + (c - 55296) * 1024 + (s[2] - 56320))
              \o textEncode(Tail(Tail(s)))
         ELSE IF IsHighSurrogate(c) \/ IsLowSurrogate(c)
              THEN utf8Bytes(65533) \o textEncode(Tail(s))
              ELSE utf8Bytes(c) \o textEncode(Tail(s))

\* The code units of one decoded code point.
codeUnits(cp) ==
    IF cp < 65536 THEN <<cp>>
    ELSE <<55296 + ((cp - 65536) \div 1024), 56320 + ((cp - 65536) % 1024)>>

\* The UTF-8 decoder of a TextDecoder that is not fatal: needed is the number
\* of continuation bytes still expected, cp the code point so far, lower and
\* upper the range the next continuation byte must lie in. A byte that cannot
\* continue the sequence ends it with U+FFFD and is decoded again as a first
\* byte; the end of input inside a sequence gives one U+FFFD.
RECURSIVE utf8Decode(_, _, _, _, _)
utf8Decode(b, needed, cp, lower, upper) ==
    IF b = <<>> THEN (IF needed > 0 THEN <<65533>> ELSE <<>>)
    ELSE LET c == Head(b) IN
         IF needed = 0
         THEN IF c < 128 THEN <<c>> \o utf8Decode(Tail(b), 0, 0, 128, 191)
              ELSE IF c >= 194 /\ c <= 223
                   THEN utf8Decode(Tail(b), 1, c - 192, 128, 191)
              ELSE IF c >= 224 /\ c <= 239
                   THEN utf8Decode(Tail(b), 2, c - 224,
                                   IF c = 224 THEN 160 ELSE 128,
                                   IF c = 237 THEN 159 ELSE 191)
              ELSE IF c >= 240 /\ c <= 244
                   THEN utf8Decode(Tail(b), 3, c - 240,
                                   IF c = 240 THEN 144 ELSE 128,
                                   IF c = 244 THEN 143 ELSE 191)
              ELSE <<65533>> \o utf8Decode(Tail(b), 0, 0, 128, 191)
         ELSE IF c < lower \/ c > upper
              THEN <<65533>> \o utf8Decode(b, 0, 0, 128, 191)
              ELSE IF needed = 1
                   THEN codeUnits(cp * 64 + (c - 128)) \o utf8Decode(Tail(b), 0, 0, 128, 191)
                   ELSE utf8Decode(Tail(b), needed - 1, cp * 64 + (c - 128), 128, 191)

\* TextDecoder.decode of a decoder made with no options (ignoreBOM false): a
\* leading U+FEFF is a byte order mark and is left out of the result.
textDecode(b) ==
    LET units == utf8Decode(b, 0, 0, 128, 191) IN
    IF units # <<>> /\ Head(units) = 65279 THEN Tail(units) ELSE units

\* Faulty variant: the method field is given the message type instead of 0.
encodeErrorResponse_typeAsMethod(id, code, message) ==
    encodeMessage(MessageType_ErrorResponse, id, MessageType_ErrorResponse,
                  write32(Wide(code)) \o textEncode(message))

encodeErrorResponse(id, code, message) ==
    encodeMessage(MessageType_ErrorResponse, id, 0,
                  write32(Wide(code)) \o textEncode(message))

\* Faulty variant: body_len is not checked against the length of the frame.
decodeMessage_noLengthCheck(data) ==
    IF Len(data) < HEADER_SIZE
    THEN [ok |-> FALSE, detail |-> TooShortText,
          type |-> 0, id |-> Wide(0), method |-> 0, body |-> <<>>]
    ELSE [ok |-> TRUE, detail |-> <<>>,
          type |-> data[1], id |-> read32(data, 4), method |-> read16(data, 2),
          body |-> subarray(data, HEADER_SIZE, HEADER_SIZE + read32(data, 8)[2])]

\* decodeMessage: ok = FALSE stands for the FbRpcError(PARSE_ERROR) it throws.
decodeMessage(data) ==
    IF Len(data) < HEADER_SIZE
    THEN [ok |-> FALSE, detail |-> TooShortText,
          type |-> 0, id |-> Wide(0), method |-> 0, body |-> <<>>]
    ELSE LET bodyLen == read32(data, 8) IN
         IF ShorterThan(Len(data), HEADER_SIZE, bodyLen)
         THEN [ok |-> FALSE, detail |-> IncompleteText,
               type |-> 0, id |-> Wide(0), method |-> 0, body |-> <<>>]
         ELSE [ok |-> TRUE, detail |-> <<>>,
               type |-> data[1], id |-> read32(data, 4), method |-> read16(data, 2),
               body |-> subarray(data, HEADER_SIZE, HEADER_SIZE + bodyLen[2])]

\* A faulty variant: the code is read as the whole body's first byte.
decodeErrorResponse_firstByte(body) ==
    [code |-> body[1], message |-> textDecode(subarray(body, 4, Len(body)))]

decodeErrorResponse(body) ==
    [code |-> readI32(body, 0), message |-> textDecode(subarray(body, 4, Len(body)))]


\* ------------------------------------------------------------------- state

VARIABLES
    requestIdCounter,      \* the module-level counter shared by all FbRpc instances
    requestTimeout,        \* this.requestTimeout
    toTransport,           \* this.toTransport: the sink, or NoSink for null
    entries,               \* the HandlerEntry objects made so far, in creation order
    dispatcher,            \* this.dispatcher: method -> index into entries, 0 = no key
    pendingRequests,       \* this.pendingRequests: the Map, in insertion order
    timeoutCheckInterval,  \* this.timeoutCheckInterval: the interval timer or null
    promises,              \* the promises request returned, in creation order
    inflight,              \* promises returned by handlers and not yet settled
    now,                   \* performance.now()
    out,                   \* the sink invocations of the last operation, in order
    calls,                 \* the guard and handler invocations of the last operation
    lastOp,                \* the last operation and its arguments
    cleanedAt,             \* the number of request calls made before the last clean,
                           \* or NotCleaned if a sink was registered since (or no
                           \* clean has run)
    codec,                 \* the last call of a module-level codec function: its
                           \* arguments and what it returned
    remote                 \* a second FbRpc instance of the same process: its fields,
                           \* and in out and calls what its last operation did

vars == <<requestIdCounter, requestTimeout, toTransport, entries, dispatcher,
          pendingRequests, timeoutCheckInterval, promises, inflight, now, out,
          calls, lastOp, cleanedAt, codec, remote>>

NoSink == "null"
NotCleaned == -1
Sinks == {"sinkA", "sinkB"}
AppData == {"ctxA", "ctxB"}

NoCtor == "undefined"
\* The schema the peer is constructed with: method 0 has a response type,
\* method 3 is declared void (no Res).
Schema ==
    (0 :> [Req |-> "AddRequest", Res |-> "AddResponse"])
    @@ (3 :> [Req |-> "PingRequest", Res |-> NoCtor])
Methods == DOMAIN Schema

\* timeoutCheckInterval: null, or the timer with the time its callback is due.
NoTimer == [set |-> FALSE, due |-> 0]

\* The value a promise is settled with.
NoValue ==
    [kind |-> "none", code |-> 0, message |-> <<>>, id |-> Wide(0), errorMessage |-> <<>>,
     ctor |-> NoCtor, bytes |-> <<>>]
VoidValue == [NoValue EXCEPT !.kind = "void"]
ReaderValue(Ctor, bytes) == [NoValue EXCEPT !.kind = "reader", !.ctor = Ctor, !.bytes = bytes]
FbRpcError(code, message, id, errorMessage) ==
    [NoValue EXCEPT !.kind = "error", !.code = code, !.message = message, !.id = id,
                    !.errorMessage = errorMessage]

\* What the environment decides during one inbound frame.
\*   reqOk, resOk: unpackFB of the request / response body does not throw
\*   errText:      the message of whatever is thrown
\*   guardFail:    the position in the chain of the first guard that throws, 0 = none
\*   result:       what the handler does
\*   resBody:      the bytes the handler's result packs to
\*   nullish:      what the guard or the handler throws, or rejects its promise
\*                 with, is null or undefined instead of an Error
\*   sinkThrows:   how many of the sink's invocations, counted from the first,
\*                 throw an Error (with message errText) after taking the frame
DefaultEnv ==
    [reqOk |-> TRUE, resOk |-> TRUE, errText |-> <<>>, guardFail |-> 0,
     result |-> "undefined", resBody |-> <<>>, nullish |-> FALSE, sinkThrows |-> 0]

NoOp == [op |-> "init", data |-> <<>>, appData |-> "ctxA", method |-> 0, text |-> <<>>,
         env |-> DefaultEnv, cb |-> NoSink, threw |-> FALSE]

\* No codec function has been called: fn is the function called last, encoder
\* the function that builds frame from (type, id, method, body) or from
\* (id, code, message); decoded is what decodeMessage(frame) returned,
\* reencoded what encodeMessage returned for the decoded fields, and error
\* what decodeErrorResponse(decoded.body) returned.
NoCall ==
    [fn |-> "none", encoder |-> "none", type |-> 0, id |-> Wide(0), method |-> 0,
     body |-> <<>>, code |-> 0, message |-> <<>>, frame |-> <<>>,
     decoded |-> [ok |-> FALSE, detail |-> <<>>, type |-> 0, id |-> Wide(0),
                  method |-> 0, body |-> <<>>],
     reencoded |-> <<>>, error |-> [code |-> 0, message |-> <<>>]]

\* ------------------------------------------------- the peer as one record

Peer ==
    [requestIdCounter |-> requestIdCounter, requestTimeout |-> requestTimeout,
     toTransport |-> toTransport, entries |-> entries, dispatcher |-> dispatcher,
     pendingRequests |-> pendingRequests, timeoutCheckInterval |-> timeoutCheckInterval,
     promises |-> promises, inflight |-> inflight, out |-> <<>>, calls |-> <<>>,
     cleanedAt |-> cleanedAt, threw |-> FALSE]

\* Map operations on the insertion-ordered pendingRequests.
MapHas(m, id) == \E i \in 1..Len(m) : m[i].id = id
MapGet(m, id) == m[CHOOSE i \in 1..Len(m) : m[i].id = id]
MapDelete(m, id) == SelectSeq(m, LAMBDA e : e.id # id)
\* A faulty variant: the new entry is put in front of the others.
MapSet_front(m, id, v) == <<v>> \o MapDelete(m, id)

\* Map.set: an existing key keeps its place and gets the new value.
MapSet(m, id, v) ==
    IF MapHas(m, id) THEN [i \in 1..Len(m) |-> IF m[i].id = id THEN v ELSE m[i]]
    ELSE Append(m, v)

\* resolve or reject of promise p: only the first call settles it.
Settle(ps, p, state, value) ==
    IF ps[p].state = "pending"
    THEN [ps EXCEPT ![p].state = state, ![p].value = value, ![p].settleCalls = @ + 1]
    ELSE [ps EXCEPT ![p].settleCalls = @ + 1]

\* Faulty variant: the counter is kept to 16 bits.
generateRequestId_16bit(counter) == <<0, (counter[2] + 1) % 65536>>

generateRequestId(counter) == ToUint32(WidePlusOne(counter))

callToTransport(st, data, appData) ==
    IF st.toTransport # NoSink
    THEN [st EXCEPT !.out = Append(@, [sink |-> st.toTransport, data |-> data,
                                       appData |-> appData])]
    ELSE st

\* Faulty variant: clearInterval is forgotten, the interval stays armed.
stopTimeoutChecker_armed(timer) == timer

stopTimeoutChecker(timer) == NoTimer

\* Faulty variant: setInterval is never called.
startTimeoutChecker_never(timer, t) == timer

startTimeoutChecker(timer, t) ==
    IF timer.set THEN timer
    ELSE [set |-> TRUE, due |-> t + TIMEOUT_CHECK_INTERVAL_MS]

\* Faulty variant: a sink that is already set is kept.
registerToTransportCallback_keepsFirst(st, cb) ==
    IF st.toTransport # NoSink THEN st
    ELSE [st EXCEPT !.toTransport = cb, !.cleanedAt = NotCleaned]

registerToTransportCallback(st, cb) ==
    [st EXCEPT !.toTransport = cb, !.cleanedAt = NotCleaned]

\* Faulty variant: a method that has an entry keeps it, guards included, and
\* only its function is replaced.
registerHandler_reusesEntry(st, method, fn) ==
    IF st.dispatcher[method] # 0
    THEN [st EXCEPT !.entries[st.dispatcher[method]].fn = fn]
    ELSE [st EXCEPT !.entries = Append(@, [method |-> method, fn |-> fn, guards |-> <<>>]),
                    !.dispatcher = [@ EXCEPT ![method] = Len(st.entries) + 1]]

registerHandler(st, method, fn) ==
    [st EXCEPT !.entries = Append(@, [method |-> method, fn |-> fn, guards |-> <<>>]),
               !.dispatcher = [@ EXCEPT ![method] = Len(st.entries) + 1]]

\* DispatcherHandler.addGuard / addRequestGuard / addAppDataGuard on the handle
\* of entry h.
addGuard(st, h, type, fn) ==
    [st EXCEPT !.entries[h].guards = Append(@, [type |-> type, fn |-> fn])]

\* Faulty variant: the waiter is recorded under the method's number instead
\* of the id, and the checker is started only by the second waiter.
request_keyedByMethod(st, t, method, body, appData) ==
    LET id == generateRequestId(st.requestIdCounter)
        msg == encodeMessage(MessageType_Request, id, method, body)
        p == Len(st.promises) + 1
        pend == MapSet(st.pendingRequests, Wide(method),
                       [id |-> Wide(method), method |-> method, p |-> p, timestamp |-> t])
        st1 == [st EXCEPT
                  !.requestIdCounter = id,
                  !.promises = Append(@, [id |-> id, state |-> "pending",
                                          value |-> NoValue, settleCalls |-> 0]),
                  !.pendingRequests = pend,
                  !.timeoutCheckInterval =
                      IF Len(pend) = 2 THEN startTimeoutChecker(@, t) ELSE @]
    IN callToTransport(st1, msg, appData)

request(st, t, method, body, appData) ==
    LET id == generateRequestId(st.requestIdCounter)
        msg == encodeMessage(MessageType_Request, id, method, body)
        p == Len(st.promises) + 1
        pend == MapSet(st.pendingRequests, id,
                       [id |-> id, method |-> method, p |-> p, timestamp |-> t])
        st1 == [st EXCEPT
                  !.requestIdCounter = id,
                  !.promises = Append(@, [id |-> id, state |-> "pending",
                                          value |-> NoValue, settleCalls |-> 0]),
                  !.pendingRequests = pend,
                  !.timeoutCheckInterval =
                      IF Len(pend) = 1 THEN startTimeoutChecker(@, t) ELSE @]
    IN callToTransport(st1, msg, appData)

\* Faulty variant: the Notification is given a fresh id from the counter.
notify_withId(st, method, body, appData) ==
    LET id == generateRequestId(st.requestIdCounter) IN
    callToTransport([st EXCEPT !.requestIdCounter = id],
                    encodeMessage(MessageType_Notification, id, method, body), appData)

notify(st, method, body, appData) ==
    callToTransport(st, encodeMessage(MessageType_Notification, Wide(0), method, body), appData)

encodeNotification(method, body) ==
    encodeMessage(MessageType_Notification, Wide(0), method, body)

\* Faulty variant: the table is cleared but the waiters are not rejected.
rejectPendingRequests_silent(st, error) ==
    [st EXCEPT !.pendingRequests = <<>>,
               !.timeoutCheckInterval = stopTimeoutChecker(@)]

RECURSIVE rejectAll(_, _, _)
rejectAll(ps, pend, error) ==
    IF pend = <<>> THEN ps
    ELSE rejectAll(Settle(ps, Head(pend).p, "rejected", error), Tail(pend), error)

rejectPendingRequests(st, error) ==
    [st EXCEPT !.promises = rejectAll(@, st.pendingRequests, error),
               !.pendingRequests = <<>>,
               !.timeoutCheckInterval = stopTimeoutChecker(@)]

\* Faulty variant: the dispatcher is left as it is.
resetDispatcher_keeps(st) == st

\* Only the entries the dispatcher still holds lose their guards.
resetDispatcher(st) ==
    [st EXCEPT
       !.entries = [i \in 1..Len(st.entries) |->
                      IF \E m \in DOMAIN st.dispatcher : st.dispatcher[m] = i
                      THEN [st.entries[i] EXCEPT !.guards = <<>>]
                      ELSE st.entries[i]],
       !.dispatcher = [m \in DOMAIN st.dispatcher |-> 0]]

clean(st, reason) ==
    LET st1 == rejectPendingRequests(st,
                   FbRpcError(INTERNAL_ERROR_code, INTERNAL_ERROR_message, Wide(-1), reason))
        st2 == resetDispatcher(st1)
    IN [st2 EXCEPT !.timeoutCheckInterval = stopTimeoutChecker(@),
                   !.toTransport = NoSink, !.cleanedAt = Len(st.promises)]

\* --------------------------------------------------------- timeout checker

\* Faulty variant: the sweep ignores the timeout and takes every entry.
isTimedOut_always(t, timestamp, timeout) == t - timestamp >= 0

\* The test of the sweep: now - request.timestamp >= this.requestTimeout.
isTimedOut(t, timestamp, timeout) == t - timestamp >= timeout

\* A faulty variant: the scan stops after the first entry.
timedOutRequests_firstOnly(pend, t, timeout) ==
    IF pend # <<>> /\ isTimedOut(t, Head(pend).timestamp, timeout) THEN <<Head(pend).id>>
    ELSE <<>>

\* The first loop of the interval callback: the ids of the leading entries
\* that have timed out, up to the first entry that has not.
RECURSIVE timedOutRequests(_, _, _)
timedOutRequests(pend, t, timeout) ==
    IF pend = <<>> THEN <<>>
    ELSE IF isTimedOut(t, Head(pend).timestamp, timeout)
         THEN <<Head(pend).id>> \o timedOutRequests(Tail(pend), t, timeout)
         ELSE <<>>

\* Faulty variant: the waiter is rejected but stays in the table.
RECURSIVE expire_keeps(_, _)
expire_keeps(st, ids) ==
    IF ids = <<>> THEN st
    ELSE LET id == Head(ids) IN
         IF MapHas(st.pendingRequests, id)
         THEN expire_keeps([st EXCEPT
                        !.promises = Settle(@, MapGet(st.pendingRequests, id).p, "rejected",
                                        FbRpcError(REQUEST_TIMEOUT_code,
                                                   REQUEST_TIMEOUT_message, Wide(-1), <<>>))],
                     Tail(ids))
         ELSE expire_keeps(st, Tail(ids))

\* The second loop: delete each listed id that is still pending, reject it.
RECURSIVE expire(_, _)
expire(st, ids) ==
    IF ids = <<>> THEN st
    ELSE LET id == Head(ids) IN
         IF MapHas(st.pendingRequests, id)
         THEN expire([st EXCEPT
                        !.pendingRequests = MapDelete(@, id),
                        !.promises = Settle(@, MapGet(st.pendingRequests, id).p, "rejected",
                                        FbRpcError(REQUEST_TIMEOUT_code,
                                                   REQUEST_TIMEOUT_message, Wide(-1), <<>>))],
                     Tail(ids))
         ELSE expire(st, Tail(ids))

\* Faulty variant: the callback stops the interval after every sweep, whether
\* or not entries remain.
timeoutCheck_stops(st, t) ==
    LET st1 == expire(st, timedOutRequests(st.pendingRequests, t, st.requestTimeout))
    IN [st1 EXCEPT !.timeoutCheckInterval = stopTimeoutChecker(@)]

\* One run of the setInterval callback at time t; the timer is rearmed unless
\* the callback stops it.
timeoutCheck(st, t) ==
    LET st1 == expire(st, timedOutRequests(st.pendingRequests, t, st.requestTimeout))
    IN [st1 EXCEPT !.timeoutCheckInterval =
            IF Len(st1.pendingRequests) = 0 THEN stopTimeoutChecker(@)
            ELSE [@ EXCEPT !.due = @ + TIMEOUT_CHECK_INTERVAL_MS]]

\* ------------------------------------------------------- inbound dispatch

\* Error.prototype.toString of an Error with the given message.
errToString(message) ==
    IF message = <<>> THEN <<69, 114, 114, 111, 114>>
    ELSE <<69, 114, 114, 111, 114, 58, 32>> \o message

\* Faulty variant: every kind of guard is called like a plain guard.
guardCall_bothArgs(guard, appData) ==
    [kind |-> "guard", fn |-> guard.fn, args |-> <<"req", appData>>]

guardCall(guard, appData) ==
    [kind |-> "guard", fn |-> guard.fn,
     args |-> IF guard.type = GuardType_Guard THEN <<"req", appData>>
              ELSE IF guard.type = GuardType_RequestGuard THEN <<"req">>
              ELSE <<appData>>]

handlerCall(handler, appData) ==
    [kind |-> "handler", fn |-> handler.fn, args |-> <<"req", appData>>]

\* Faulty variant: a handler's error is reported as INTERNAL_ERROR.
respond_internalError(st, id, method, appData, hasRes, env) ==
    IF env.result = "throw"
    THEN callToTransport(st, encodeErrorResponse(id, INTERNAL_ERROR_code, env.errText),
                         appData)
    ELSE IF env.result = "undefined" \/ ~hasRes
    THEN callToTransport(st, encodeVoidResponse(id, method), appData)
    ELSE callToTransport(st, encodeMessage(MessageType_Response, id, method, env.resBody),
                         appData)

\* Faulty variant: a result is packed and sent even though the method is
\* declared void.
respond_ignoresSchema(st, id, method, appData, hasRes, env) ==
    IF env.result = "throw"
    THEN callToTransport(st, encodeErrorResponse(id, APPLICATION_ERROR_code, env.errText),
                         appData)
    ELSE IF env.result = "undefined"
    THEN callToTransport(st, encodeVoidResponse(id, method), appData)
    ELSE callToTransport(st, encodeMessage(MessageType_Response, id, method, env.resBody),
                         appData)

\* The completion of a handler's result: the .then / .catch callbacks, and the
\* same three outcomes on the synchronous path.
\* A faulty variant: the answer is put off to a later task, as if every
\* handler had returned a promise.
respond_deferred(st, id, method, appData, hasRes, env) ==
    [st EXCEPT !.inflight = Append(@, [id |-> id, method |-> method, appData |-> appData,
                                       hasRes |-> hasRes])]

\* The sink is called inside the try block (and inside the then callback whose
\* promise catch is chained to): what the sink throws is caught like what
\* the handler throws, and the sink is called again with the error frame.
respond(st, id, method, appData, hasRes, env) ==
    IF env.result = "throw"
    THEN callToTransport(st, encodeErrorResponse(id, APPLICATION_ERROR_code, env.errText),
                         appData)
    ELSE LET st1 == IF env.result = "undefined" \/ ~hasRes
                    THEN callToTransport(st, encodeVoidResponse(id, method), appData)
                    ELSE callToTransport(st, encodeMessage(MessageType_Response, id, method,
                                                           env.resBody), appData)
         IN IF env.sinkThrows >= 1 /\ st.toTransport # NoSink
            THEN callToTransport(st1, encodeErrorResponse(id, APPLICATION_ERROR_code,
                                                          env.errText), appData)
            ELSE st1

\* Faulty variant: a Request for a method without a handler is dropped like a
\* Notification.
methodNotFound_silent(st, msg, appData) == st

\* The branch of handleRequest for a method the dispatcher does not hold.
methodNotFound(st, msg, appData) ==
    IF ~(msg.type = MessageType_Notification)
    THEN callToTransport(st, encodeErrorResponse(msg.id, METHOD_NOT_FOUND_code,
                                                 METHOD_NOT_FOUND_message), appData)
    ELSE st

\* Faulty variant: the chain goes on after a guard has thrown.
guardsRun_all(guardsLength, guardFail) == guardsLength

\* The number of guards the loop invokes: all of them, or those up to and
\* including the first that throws.
guardsRun(guardsLength, guardFail) ==
    IF guardFail \in 1..guardsLength THEN guardFail ELSE guardsLength

\* Faulty variant: a guard's error is reported for a Notification too.
guardError_always(st, msg, appData, env) ==
    callToTransport(st, encodeErrorResponse(msg.id, GUARD_ERROR_code,
                                            errToString(env.errText)), appData)

\* The catch block around the guard loop.
guardError(st, msg, appData, env) ==
    IF msg.type = MessageType_Notification THEN st
    ELSE callToTransport(st, encodeErrorResponse(msg.id, GUARD_ERROR_code,
                                                 errToString(env.errText)), appData)

\* Faulty variant: a request body that does not unpack is reported as a
\* parse error.
invalidRequest_parseError(st, msg, appData, env) ==
    IF msg.type = MessageType_Notification THEN st
    ELSE callToTransport(st, encodeErrorResponse(msg.id, PARSE_ERROR_code, env.errText),
                         appData)

\* The catch block around unpackFB of the request body.
invalidRequest(st, msg, appData, env) ==
    IF msg.type = MessageType_Notification THEN st
    ELSE callToTransport(st, encodeErrorResponse(msg.id, INVALID_REQUEST_code, env.errText),
                         appData)

\* Faulty variant: the catch blocks take null and undefined like an Error
\* and return.
nullishThrown_ignored(st) == st

\* The catch blocks evaluate err.toString() (guards) and err.message
\* (handler) before anything is sent: on null or undefined that is a
\* TypeError, thrown inside the catch block and so out of handleRequest and
\* fromTransport.
nullishThrown(st) == [st EXCEPT !.threw = TRUE]

handleRequest(st, msg, appData, env) ==
    LET isNotif == msg.type = MessageType_Notification
        h == IF msg.method \in DOMAIN st.dispatcher THEN st.dispatcher[msg.method] ELSE 0
    IN
    IF h = 0
    THEN methodNotFound(st, msg, appData)
    ELSE
    LET handler == st.entries[h]
        guardsLength == Len(handler.guards)
        thrown == env.guardFail \in 1..guardsLength
        ran == guardsRun(guardsLength, env.guardFail)
        st1 == [st EXCEPT !.calls = @ \o [i \in 1..ran |->
                                            guardCall(handler.guards[i], appData)]]
        hasRes == Schema[handler.method].Res # NoCtor
        st2 == [st1 EXCEPT !.calls = Append(@, handlerCall(handler, appData))]
    IN
    IF ~env.reqOk
    THEN invalidRequest(st, msg, appData, env)
    ELSE IF thrown
    THEN IF env.nullish /\ ~isNotif
         THEN nullishThrown(st1)
         ELSE guardError(st1, msg, appData, env)
    ELSE IF isNotif THEN st2
    ELSE IF env.result = "promise"
    THEN [st2 EXCEPT !.inflight = Append(@, [id |-> msg.id, method |-> msg.method,
                                             appData |-> appData, hasRes |-> hasRes])]
    ELSE IF env.result = "throw" /\ env.nullish
    THEN nullishThrown(st2)
    ELSE respond(st2, msg.id, msg.method, appData, hasRes, env)

\* Faulty variant: the answer to a settled promise carries method 0 instead
\* of the method of its request.
handlerSettled_methodZero(st, k, env) ==
    LET r == st.inflight[k]
        st1 == [st EXCEPT !.inflight = [i \in 1..(Len(@) - 1) |->
                                          IF i < k THEN @[i] ELSE @[i + 1]]]
    IN respond(st1, r.id, 0, r.appData, r.hasRes, env)

\* A promise returned by a handler settles: env.result is "value", "undefined"
\* or "throw" (rejected).
\* A faulty variant: the answer is sent with one fixed appData.
handlerSettled_otherAppData(st, k, env) ==
    LET r == st.inflight[k]
        st1 == [st EXCEPT !.inflight = [i \in 1..(Len(@) - 1) |->
                                          IF i < k THEN @[i] ELSE @[i + 1]]]
    IN respond(st1, r.id, r.method, "ctxA", r.hasRes, env)

handlerSettled(st, k, env) ==
    LET r == st.inflight[k]
        st1 == [st EXCEPT !.inflight = [i \in 1..(Len(@) - 1) |->
                                          IF i < k THEN @[i] ELSE @[i + 1]]]
    IN IF env.result = "throw" /\ env.nullish
       THEN st1
       ELSE respond(st1, r.id, r.method, r.appData, r.hasRes, env)

\* Faulty variant: the response type is looked up under the frame's method
\* instead of the waiter's.
responseOutcome_byFrame(pendingRequest, msg, env) ==
    IF Len(msg.body) = 0 THEN <<"resolved", VoidValue>>
    ELSE IF msg.method \notin DOMAIN Schema
    THEN <<"rejected", FbRpcError(INVALID_REQUEST_code, env.errText, msg.id, <<>>)>>
    ELSE IF Schema[msg.method].Res = NoCtor THEN <<"resolved", VoidValue>>
    ELSE IF env.resOk
    THEN <<"resolved", ReaderValue(Schema[msg.method].Res, msg.body)>>
    ELSE <<"rejected", FbRpcError(INVALID_REQUEST_code, env.errText, msg.id, <<>>)>>

\* The value handleResponse settles the waiter with: <<state, value>>.
responseOutcome(pendingRequest, msg, env) ==
    IF Len(msg.body) = 0 THEN <<"resolved", VoidValue>>
    ELSE IF pendingRequest.method \notin DOMAIN Schema
    THEN <<"rejected", FbRpcError(INVALID_REQUEST_code, env.errText, msg.id, <<>>)>>
    ELSE IF Schema[pendingRequest.method].Res = NoCtor THEN <<"resolved", VoidValue>>
    ELSE IF env.resOk
    THEN <<"resolved", ReaderValue(Schema[pendingRequest.method].Res, msg.body)>>
    ELSE <<"rejected", FbRpcError(INVALID_REQUEST_code, env.errText, msg.id, <<>>)>>

\* Faulty variant: a Response with an unknown id is answered with an error
\* frame instead of being dropped.
handleResponse_answers(st, msg, env) ==
    IF ~MapHas(st.pendingRequests, msg.id)
    THEN callToTransport(st, encodeErrorResponse(msg.id, INVALID_REQUEST_code,
                                                 INVALID_REQUEST_message), "ctxA")
    ELSE LET pendingRequest == MapGet(st.pendingRequests, msg.id)
             pend == MapDelete(st.pendingRequests, msg.id)
             o == responseOutcome(pendingRequest, msg, env)
         IN [st EXCEPT !.pendingRequests = pend,
                       !.timeoutCheckInterval =
                           IF Len(pend) = 0 THEN stopTimeoutChecker(@) ELSE @,
                       !.promises = Settle(@, pendingRequest.p, o[1], o[2])]

\* Faulty variant: a Response completes the waiter only if the frame's method
\* field is the method the request was sent with.
handleResponse_byMethod(st, msg, env) ==
    IF ~(\E i \in 1..Len(st.pendingRequests) :
            st.pendingRequests[i].id = msg.id /\ st.pendingRequests[i].method = msg.method)
    THEN st
    ELSE LET pendingRequest == MapGet(st.pendingRequests, msg.id)
             pend == MapDelete(st.pendingRequests, msg.id)
             o == responseOutcome(pendingRequest, msg, env)
         IN [st EXCEPT !.pendingRequests = pend,
                       !.timeoutCheckInterval =
                           IF Len(pend) = 0 THEN stopTimeoutChecker(@) ELSE @,
                       !.promises = Settle(@, pendingRequest.p, o[1], o[2])]

handleResponse(st, msg, env) ==
    IF ~MapHas(st.pendingRequests, msg.id) THEN st
    ELSE LET pendingRequest == MapGet(st.pendingRequests, msg.id)
             pend == MapDelete(st.pendingRequests, msg.id)
             o == responseOutcome(pendingRequest, msg, env)
         IN [st EXCEPT !.pendingRequests = pend,
                       !.timeoutCheckInterval =
                           IF Len(pend) = 0 THEN stopTimeoutChecker(@) ELSE @,
                       !.promises = Settle(@, pendingRequest.p, o[1], o[2])]

\* Faulty variant: the lookup also requires the frame's method to be the
\* waiter's.
handleErrorResponse_byMethod(st, msg) ==
    IF ~(MapHas(st.pendingRequests, msg.id)
         /\ MapGet(st.pendingRequests, msg.id).method = msg.method) THEN st
    ELSE LET pendingRequest == MapGet(st.pendingRequests, msg.id)
             pend == MapDelete(st.pendingRequests, msg.id)
             e == decodeErrorResponse(msg.body)
         IN [st EXCEPT !.pendingRequests = pend,
                       !.timeoutCheckInterval =
                           IF Len(pend) = 0 THEN stopTimeoutChecker(@) ELSE @,
                       !.promises = Settle(@, pendingRequest.p, "rejected",
                                           FbRpcError(e.code, e.message, msg.id, <<>>))]

handleErrorResponse(st, msg) ==
    IF ~MapHas(st.pendingRequests, msg.id) THEN st
    ELSE LET pendingRequest == MapGet(st.pendingRequests, msg.id)
             pend == MapDelete(st.pendingRequests, msg.id)
             e == decodeErrorResponse(msg.body)
         IN [st EXCEPT !.pendingRequests = pend,
                       !.timeoutCheckInterval =
                           IF Len(pend) = 0 THEN stopTimeoutChecker(@) ELSE @,
                       !.promises = Settle(@, pendingRequest.p, "rejected",
                                           FbRpcError(e.code, e.message, msg.id, <<>>))]

\* A faulty variant: a frame of no known type is answered like a frame that
\* does not decode.
fromTransport_unknownTypeAnswered(st, data, appData, env) ==
    LET msg == decodeMessage(data) IN
    IF ~msg.ok \/ msg.type \notin {MessageType_Request, MessageType_Notification,
                                    MessageType_Response, MessageType_ErrorResponse}
    THEN callToTransport(st, encodeErrorResponse(Wide(-1), PARSE_ERROR_code,
                                                 PARSE_ERROR_message), appData)
    ELSE IF msg.type = MessageType_Request \/ msg.type = MessageType_Notification
    THEN handleRequest(st, msg, appData, env)
    ELSE IF msg.type = MessageType_Response THEN handleResponse(st, msg, env)
    ELSE handleErrorResponse(st, msg)

\* What the last call of the sink throws is caught nowhere and leaves
\* fromTransport.
fromTransport(st, data, appData, env) ==
    LET msg == decodeMessage(data)
        after ==
            IF ~msg.ok
            THEN callToTransport(st, encodeErrorResponse(Wide(-1), PARSE_ERROR_code,
                                                         PARSE_ERROR_message), appData)
            ELSE IF msg.type = MessageType_Request \/ msg.type = MessageType_Notification
            THEN handleRequest(st, msg, appData, env)
            ELSE IF msg.type = MessageType_Response THEN handleResponse(st, msg, env)
            ELSE IF msg.type = MessageType_ErrorResponse THEN handleErrorResponse(st, msg)
            ELSE st
        invoked == Len(after.out) - Len(st.out)
    IN IF invoked >= 1 /\ env.sinkThrows >= invoked THEN [after EXCEPT !.threw = TRUE]
       ELSE after

\* ------------------------------------------------------------------ inputs

\* What packFB returns for a request or result value: opaque bytes.
PackedBody == <<4, 0, 0, 0>>
\* 'bad'
BadText == <<98, 97, 100>>
\* An error body: code -7, then the UTF-8 of 'bad'.
ErrorBody == write32(Wide(-7)) \o textEncode(BadText)

\* An id no request of the run is given.
UnknownId == Wide(7)
\* A method id the schema and the dispatcher do not know.
UnknownMethod == 99
HandlerFns == {"h1"}
GuardFns == {"g1", "g2"}
GuardTypes == {GuardType_Guard, GuardType_RequestGuard, GuardType_AppDataGuard}
\* 'done'
Reasons == {<<100, 111, 110, 101>>}

ThrowEnv == [DefaultEnv EXCEPT !.errText = BadText]

\* Inbound Response and ErrorResponse frames carrying the given id, each with
\* what unpackFB does with its body: an empty Response, a Response with a body
\* that unpacks or does not, an ErrorResponse.
ReplyInputs(id) ==
    UNION {{<<encodeMessage(MessageType_Response, id, m, <<>>), DefaultEnv>>,
            <<encodeMessage(MessageType_Response, id, m, PackedBody), DefaultEnv>>,
            <<encodeMessage(MessageType_Response, id, m, PackedBody),
              [ThrowEnv EXCEPT !.resOk = FALSE]>>,
            <<encodeMessage(MessageType_ErrorResponse, id, m, ErrorBody), DefaultEnv>>} :
           m \in Methods}

\* Late, duplicate or stray replies: an id that is not pending.
StrayInputs(id) ==
    {<<encodeMessage(MessageType_Response, id, 0, PackedBody), DefaultEnv>>,
     <<encodeMessage(MessageType_ErrorResponse, id, 0, ErrorBody), DefaultEnv>>}

PendingIds == {pendingRequests[i].id : i \in 1..Len(pendingRequests)}
SettledIds == {promises[p].id : p \in 1..Len(promises)} \ PendingIds

\* What a handler does with a request, synchronously.
SyncEnvs ==
    {[DefaultEnv EXCEPT !.result = "value", !.resBody = PackedBody],
     [DefaultEnv EXCEPT !.result = "undefined"],
     [ThrowEnv EXCEPT !.result = "throw"]}

\* Everything that can happen to an inbound Request or Notification.
CallEnvs ==
    {[ThrowEnv EXCEPT !.reqOk = FALSE]}
    \cup {[ThrowEnv EXCEPT !.guardFail = k] : k \in 1..MaxGuards}
    \cup SyncEnvs
    \cup {[DefaultEnv EXCEPT !.result = "promise"]}

\* Frames that do not decode: shorter than the header, and a header whose
\* body_len exceeds what follows it.
BadFrames ==
    {<<2, 0, 0, 0, 1, 0, 0, 0, 0, 0, 0>>,
     <<2, 0, 0, 0, 1, 0, 0, 0, 5, 0, 0, 0, 9>>}

\* A type byte that is none of the four message types.
OtherType == 4

\* ----------------------------------------------------------------- actions

\* An operation and its arguments; cb is the callback given to
\* registerToTransportCallback, registerHandler or a handle's addGuard,
\* threw whether the operation threw to its caller.
Op(name, data, appData, method, text, env) ==
    [op |-> name, data |-> data, appData |-> appData, method |-> method,
     text |-> text, env |-> env, cb |-> NoSink, threw |-> FALSE]

\* The peer after an operation becomes the state.
Becomes(st, op) ==
    \E after \in {st} :
        /\ requestIdCounter' = after.requestIdCounter
        /\ requestTimeout' = after.requestTimeout
        /\ toTransport' = after.toTransport
        /\ entries' = after.entries
        /\ dispatcher' = after.dispatcher
        /\ pendingRequests' = after.pendingRequests
        /\ timeoutCheckInterval' = after.timeoutCheckInterval
        /\ promises' = after.promises
        /\ inflight' = after.inflight
        /\ out' = after.out
        /\ calls' = after.calls
        /\ cleanedAt' = after.cleanedAt
        /\ lastOp' = [op EXCEPT !.threw = after.threw]
        /\ now' = now
        /\ codec' = codec
        /\ remote' = remote

\* An FbRpc instance as its constructor leaves it.  The counter is not a
\* field of the instance: the field of the record is set from the module's
\* counter before each operation and copied back after it.
NewPeer ==
    [requestIdCounter |-> Wide(0), requestTimeout |-> RequestTimeoutMs,
     toTransport |-> NoSink, entries |-> <<>>, dispatcher |-> [m \in Methods |-> 0],
     pendingRequests |-> <<>>, timeoutCheckInterval |-> NoTimer, promises |-> <<>>,
     inflight |-> <<>>, out |-> <<>>, calls |-> <<>>, cleanedAt |-> NotCleaned,
     threw |-> FALSE]

\* The second instance before an operation on it.
RemotePeer == [remote EXCEPT !.requestIdCounter = requestIdCounter, !.out = <<>>,
                             !.calls = <<>>, !.threw = FALSE]

\* The second instance after an operation becomes the state; the first
\* instance keeps its fields, and its sink and callbacks were not invoked.
RemoteBecomes(st, op) ==
    \E after \in {st} :
        /\ remote' = [after EXCEPT !.requestIdCounter = Wide(0)]
        /\ requestIdCounter' = after.requestIdCounter
        /\ out' = <<>>
        /\ calls' = <<>>
        /\ lastOp' = op
        /\ UNCHANGED <<requestTimeout, toTransport, entries, dispatcher, pendingRequests,
                       timeoutCheckInterval, promises, inflight, now, cleanedAt, codec>>

InitPeer ==
    /\ requestIdCounter = Wide(0)
    /\ requestTimeout = RequestTimeoutMs
    /\ toTransport = NoSink
    /\ entries = <<>>
    /\ dispatcher = [m \in Methods |-> 0]
    /\ pendingRequests = <<>>
    /\ timeoutCheckInterval = NoTimer
    /\ promises = <<>>
    /\ inflight = <<>>
    /\ now = 0
    /\ out = <<>>
    /\ calls = <<>>
    /\ lastOp = NoOp
    /\ cleanedAt = NotCleaned
    /\ remote = NewPeer

Init == InitPeer /\ codec = NoCall

RegisterToTransportCallback(cb) ==
    Becomes(registerToTransportCallback(Peer, cb),
            [Op("registerToTransportCallback", <<>>, "ctxA", 0, <<>>, DefaultEnv)
               EXCEPT !.cb = cb])

RegisterHandler(method, fn) ==
    /\ Len(entries) < MaxHandlers
    /\ Becomes(registerHandler(Peer, method, fn),
               [Op("registerHandler", <<>>, "ctxA", method, <<>>, DefaultEnv)
                  EXCEPT !.cb = fn])

AddGuard(h, type, fn) ==
    /\ Len(entries[h].guards) < MaxGuards
    /\ Becomes(addGuard(Peer, h, type, fn),
               [Op("addGuard", <<>>, "ctxA", entries[h].method, <<>>, DefaultEnv)
                  EXCEPT !.cb = fn])

\* request may be called while the run still has room for the waiter to expire.
CanRequest ==
    /\ Len(promises) < MaxRequests
    /\ now + requestTimeout + TIMEOUT_CHECK_INTERVAL_MS <= MaxTime

\* request with a sink that returns without calling back into the peer.
Request(method, body, appData) ==
    /\ CanRequest
    /\ Becomes(request(Peer, now, method, body, appData),
               Op("request", <<>>, appData, method, <<>>, DefaultEnv))

\* request with a sink that hands the frame to the other peer, whose reply
\* comes back through fromTransport before the sink returns.
RequestLoopback(method, body, appData, reply, env) ==
    /\ CanRequest
    /\ toTransport # NoSink
    /\ Becomes(fromTransport(request(Peer, now, method, body, appData), reply, appData, env),
               Op("requestLoopback", reply, appData, method, <<>>, env))

\* The operation records the packed request in text.
Notify(method, body, appData) ==
    Becomes(notify(Peer, method, body, appData),
            Op("notify", <<>>, appData, method, body, DefaultEnv))

\* The operation records the packed request in text and the frame returned
\* in data.
EncodeNotification(method, body) ==
    Becomes(Peer, Op("encodeNotification", encodeNotification(method, body), "ctxA",
                     method, body, DefaultEnv))

FromTransport(data, appData, env) ==
    /\ env.result = "promise" => Len(inflight) < MaxInflight
    /\ Becomes(fromTransport(Peer, data, appData, env),
               Op("fromTransport", data, appData, 0, <<>>, env))

HandlerSettled(k, env) ==
    Becomes(handlerSettled(Peer, k, env),
            Op("handlerSettled", <<>>, inflight[k].appData, inflight[k].method, <<>>, env))

Clean(reason) ==
    Becomes(clean(Peer, reason), Op("clean", <<>>, "ctxA", 0, reason, DefaultEnv))

\* The interval callback runs when it is due.
Tick ==
    /\ timeoutCheckInterval.set
    /\ now >= timeoutCheckInterval.due
    /\ Becomes(timeoutCheck(Peer, now), Op("tick", <<>>, "ctxA", 0, <<>>, DefaultEnv))

\* Time passes, but not beyond the moment the interval callback is due.
Advance ==
    /\ now < MaxTime
    /\ timeoutCheckInterval.set => now < timeoutCheckInterval.due
    /\ now' = LET t == Min(now + TimeQuantum, MaxTime)
              IN IF timeoutCheckInterval.set THEN Min(t, timeoutCheckInterval.due) ELSE t
    /\ out' = <<>>
    /\ calls' = <<>>
    /\ lastOp' = Op("advance", <<>>, "ctxA", 0, <<>>, DefaultEnv)
    /\ UNCHANGED <<requestIdCounter, requestTimeout, toTransport, entries, dispatcher,
                   pendingRequests, timeoutCheckInterval, promises, inflight, cleanedAt,
                   codec, remote>>

\* A reply for a pending request arrives.
FromTransportReply ==
    \E id \in PendingIds : \E in \in ReplyInputs(id) : FromTransport(in[1], "ctxA", in[2])

\* A reply arrives whose id is not pending: never given out, or settled before.
FromTransportStray ==
    \E id \in SettledIds \cup {UnknownId} : \E in \in StrayInputs(id) :
        FromTransport(in[1], "ctxA", in[2])

\* A frame that does not decode, or of no known type.
FromTransportOther ==
    \E data \in BadFrames \cup {encodeMessage(OtherType, UnknownId, 0, <<>>)} :
        FromTransport(data, "ctxA", DefaultEnv)

\* A Request or Notification arrives and is answered synchronously.
FromTransportCall ==
    \E in \in {<<MessageType_Request, 0>>, <<MessageType_Notification, UnknownMethod>>} :
        FromTransport(encodeMessage(in[1], UnknownId, in[2], PackedBody), "ctxA", DefaultEnv)

\* The request lifecycle: every operation of the peer that touches the
\* pending table, the checker, the sink or the dispatcher map.
Next ==
    \/ \E cb \in {"sinkA"} : RegisterToTransportCallback(cb)
    \/ \E method \in {0}, fn \in HandlerFns : RegisterHandler(method, fn)
    \/ \E method \in Methods : Request(method, PackedBody, "ctxA")
    \/ \E method \in Methods :
         \E in \in ReplyInputs(generateRequestId(requestIdCounter)) :
            RequestLoopback(method, PackedBody, "ctxA", in[1], in[2])
    \/ Notify(3, PackedBody, "ctxA")
    \/ FromTransportReply
    \/ FromTransportStray
    \/ FromTransportOther
    \/ FromTransportCall
    \/ \E reason \in Reasons : Clean(reason)
    \/ Tick
    \/ Advance

Spec == Init /\ [][Next]_vars

\* The ways a request ends: answered, timed out, or cut off by clean, with or
\* without a sink.  The timer is fair: a due callback runs, and time does not
\* stand still.
NextSettling ==
    \/ \E cb \in {"sinkA"} : RegisterToTransportCallback(cb)
    \/ \E method \in Methods : Request(method, PackedBody, "ctxA")
    \/ FromTransportReply
    \/ \E reason \in Reasons : Clean(reason)
    \/ Tick
    \/ Advance

FairSpec == Init /\ [][NextSettling]_vars /\ WF_vars(Tick) /\ WF_vars(Advance)

\* Requests that are never answered: no Response or ErrorResponse arrives and
\* clean is not called.
NextUnanswered ==
    \/ \E cb \in {"sinkA"} : RegisterToTransportCallback(cb)
    \/ \E method \in Methods : Request(method, PackedBody, "ctxA")
    \/ Notify(3, PackedBody, "ctxA")
    \/ FromTransportOther
    \/ FromTransportCall
    \/ Tick
    \/ Advance

UnansweredSpec == Init /\ [][NextUnanswered]_vars /\ WF_vars(Tick) /\ WF_vars(Advance)

\* Ids inbound Requests and Notifications carry: zero, and the id the first
\* request call of the run gives its own waiter.
DispatchIds == {Wide(0), Wide(1)}

\* The entry the dispatcher holds for a method, 0 if it holds none.
HandlerOf(method) == IF method \in DOMAIN dispatcher THEN dispatcher[method] ELSE 0

\* An inbound Request or Notification, for a registered method or an unknown
\* one, with everything the request body, the guards and the handler can do.
\* Only a guard that is in the chain can throw.
FromTransportDispatch ==
    \E type \in {MessageType_Request, MessageType_Notification}, id \in DispatchIds,
       method \in Methods \cup {UnknownMethod}, env \in CallEnvs :
        /\ IF HandlerOf(method) = 0 THEN env = DefaultEnv
           ELSE env.guardFail <= Len(entries[HandlerOf(method)].guards)
        /\ FromTransport(encodeMessage(type, id, method, PackedBody), "ctxA", env)

\* Frames decodeMessage rejects: the two of BadFrames (11 bytes; body_len 5
\* with one byte of body, both with the type and id of a Response to the first
\* request), the empty frame, and a header whose body_len has its top bit set.
MalformedFrames ==
    BadFrames \cup {<<>>, <<0, 0, 0, 0, 1, 0, 0, 0, 0, 0, 0, 128>>}

FromTransportMalformed ==
    \E data \in MalformedFrames : FromTransport(data, "ctxA", DefaultEnv)

\* Inbound dispatch: a handler is registered for one method of the schema and
\* given a guard chain, Requests and Notifications arrive for it and for
\* methods without a handler, handler promises settle later, frames that do
\* not decode arrive, all with and without a sink and with and without
\* waiters of the peer's own requests in the pending table.
NextDispatch ==
    \/ \E cb \in {"sinkA"} : RegisterToTransportCallback(cb)
    \/ \E method \in Methods, fn \in HandlerFns :
         entries = <<>> /\ RegisterHandler(method, fn)
    \/ \E type \in GuardTypes, fn \in GuardFns :
         Len(entries) > 0 /\ AddGuard(Len(entries), type, fn)
    \/ FromTransportDispatch
    \/ \E k \in 1..Len(inflight), env \in SyncEnvs : HandlerSettled(k, env)
    \/ FromTransportMalformed
    \/ Request(0, PackedBody, "ctxA")

DispatchSpec == Init /\ [][NextDispatch]_vars

\* ------------------------------------------------- the sending side
\* Two instances of one process call request; the first also calls notify
\* and encodeNotification, with and without a sink and with and without
\* waiters in its table.  The process has made any number of request calls
\* before: the counter starts at 0 or shortly before it wraps.

CounterStarts == {<<0, 0>>, <<65535, 65533>>, <<65535, 65534>>, <<65535, 65535>>}
SendBodies == {<<>>, PackedBody}

SendInit ==
    /\ requestIdCounter \in CounterStarts
    /\ requestTimeout = RequestTimeoutMs
    /\ toTransport = NoSink
    /\ entries = <<>>
    /\ dispatcher = [m \in Methods |-> 0]
    /\ pendingRequests = <<>>
    /\ timeoutCheckInterval = NoTimer
    /\ promises = <<>>
    /\ inflight = <<>>
    /\ now = 0
    /\ out = <<>>
    /\ calls = <<>>
    /\ lastOp = NoOp
    /\ cleanedAt = NotCleaned
    /\ codec = NoCall
    /\ remote = NewPeer

RemoteRegisterToTransportCallback(cb) ==
    RemoteBecomes(registerToTransportCallback(RemotePeer, cb),
                  Op("remote.registerToTransportCallback", <<>>, "ctxB", 0, <<>>, DefaultEnv))

RemoteRequest(method, body, appData) ==
    /\ Len(remote.promises) < MaxRequests
    /\ RemoteBecomes(request(RemotePeer, now, method, body, appData),
                     Op("remote.request", <<>>, appData, method, body, DefaultEnv))

NextSend ==
    \/ \E cb \in {"sinkA"} : RegisterToTransportCallback(cb)
    \/ \E method \in Methods : Request(method, PackedBody, "ctxA")
    \/ \E method \in Methods, body \in SendBodies : Notify(method, body, "ctxA")
    \/ \E method \in Methods, body \in SendBodies : EncodeNotification(method, body)
    \/ \E cb \in {"sinkB"} : RemoteRegisterToTransportCallback(cb)
    \/ \E method \in Methods : RemoteRequest(method, PackedBody, "ctxB")
    \/ \E reason \in Reasons : Clean(reason)

SendSpec == SendInit /\ [][NextSend]_vars

\* ------------------------------------------------- replacing the sink
\* The sink is registered, replaced by another and cleared by clean while the
\* peer sends requests and notifications and answers inbound Requests, at
\* once or when the promise its handler returned settles.

FromTransportRequest ==
    \E method \in {0, UnknownMethod}, env \in SyncEnvs \cup {[DefaultEnv EXCEPT !.result = "promise"]} :
        /\ HandlerOf(method) = 0 => env = DefaultEnv
        /\ FromTransport(encodeMessage(MessageType_Request, Wide(1), method, PackedBody),
                         "ctxA", env)

NextSink ==
    \/ \E cb \in Sinks : RegisterToTransportCallback(cb)
    \/ \E fn \in HandlerFns : dispatcher[0] = 0 /\ RegisterHandler(0, fn)
    \/ FromTransportRequest
    \/ \E k \in 1..Len(inflight), env \in SyncEnvs : HandlerSettled(k, env)
    \/ FromTransportMalformed
    \/ Request(0, PackedBody, "ctxA")
    \/ Notify(3, PackedBody, "ctxA")
    \/ \E reason \in Reasons : Clean(reason)

SinkSpec == Init /\ [][NextSink]_vars

\* ------------------------------------------------- replacing a handler
\* Handlers are registered for method 0, one after another or again after
\* clean; guards are appended through the handle of any entry made so far,
\* the current one or an earlier one; Requests and Notifications for the
\* method arrive in between.

ReplacingFns == {"h1", "h2"}

FromTransportMethod0 ==
    \E type \in {MessageType_Request, MessageType_Notification} :
        FromTransport(encodeMessage(type, Wide(1), 0, PackedBody), "ctxA",
                      [DefaultEnv EXCEPT !.result = "value", !.resBody = PackedBody])

NextHandler ==
    \/ \E fn \in ReplacingFns : RegisterHandler(0, fn)
    \/ \E h \in 1..Len(entries), fn \in GuardFns : AddGuard(h, GuardType_Guard, fn)
    \/ FromTransportMethod0
    \/ \E reason \in Reasons : Clean(reason)

HandlerSpec == Init /\ [][NextHandler]_vars

\* ------------------------------------------------- everything inbound
\* Every kind of frame arrives, with everything the callbacks can do: frames
\* that do not decode or have no known type, replies to pending and to
\* unknown requests, Requests and Notifications whose body does not unpack,
\* whose guard or handler throws an Error, throws null or undefined, returns,
\* or returns a promise that is fulfilled or rejected later.

NullishEnvs ==
    {[DefaultEnv EXCEPT !.guardFail = 1, !.nullish = TRUE],
     [DefaultEnv EXCEPT !.result = "throw", !.nullish = TRUE]}

FromTransportAnyCall ==
    \E type \in {MessageType_Request, MessageType_Notification},
       method \in {0, UnknownMethod}, env \in CallEnvs \cup NullishEnvs :
        /\ IF HandlerOf(method) = 0 THEN env = DefaultEnv
           ELSE env.guardFail <= Len(entries[HandlerOf(method)].guards)
        /\ FromTransport(encodeMessage(type, Wide(1), method, PackedBody), "ctxA", env)

\* A frame that decodes and whose type byte is none of the four types, with
\* the id of a waiter or of none and the method of a handler or of none.
FromTransportUnknownType ==
    \E type \in {OtherType, 255}, id \in PendingIds \cup {UnknownId},
       method \in {0, UnknownMethod}, body \in {<<>>, PackedBody} :
        FromTransport(encodeMessage(type, id, method, body), "ctxA", DefaultEnv)

NextInbound ==
    \/ \E cb \in {"sinkA"} : RegisterToTransportCallback(cb)
    \/ \E fn \in HandlerFns : entries = <<>> /\ RegisterHandler(0, fn)
    \/ \E fn \in {"g1"} : Len(entries) > 0 /\ AddGuard(Len(entries), GuardType_Guard, fn)
    \/ Request(0, PackedBody, "ctxA")
    \/ FromTransportAnyCall
    \/ \E k \in 1..Len(inflight), env \in SyncEnvs \cup NullishEnvs :
         env.guardFail = 0 /\ HandlerSettled(k, env)
    \/ FromTransportReply
    \/ FromTransportStray
    \/ FromTransportOther
    \/ FromTransportUnknownType
    \/ FromTransportMalformed

InboundSpec == Init /\ [][NextInbound]_vars

\* ------------------------------------------------- two peers wired together
\* The first instance is the client, the second the server.  Each one's sink
\* is the other's fromTransport, so a frame is delivered while the call that
\* emitted it is still running: request hands the frame to the server, the
\* server's answer comes back into the client, and only then does request
\* return the promise.  A request made before the client's sink is set
\* reaches nobody and stays in the table.

RemoteRegisterHandler(method, fn) ==
    /\ Len(remote.entries) < MaxHandlers
    /\ remote.dispatcher[method] = 0
    /\ RemoteBecomes(registerHandler(RemotePeer, method, fn),
                     [Op("remote.registerHandler", <<>>, "ctxB", method, <<>>, DefaultEnv)
                        EXCEPT !.cb = fn])

\* A faulty variant: the sink is called before the waiter is in the table, so
\* the answer finds no waiter and is dropped.
sinkReturns_beforeInsert(sent, served, env) == sent

\* The client when its sink returns: the server's answer, if it gave one, has
\* gone through the client's fromTransport, with the waiter already in the
\* table.  One inbound Request makes the server emit at most one frame.
sinkReturns(sent, served, env) ==
    IF served.out = <<>> THEN sent
    ELSE fromTransport(sent, served.out[1].data, served.out[1].appData, env)

\* request on the client with both fromTransport calls nested in it.
WiredRequest(method, body, appData, env) ==
    /\ CanRequest
    /\ toTransport # NoSink
    /\ \E sent \in {request(Peer, now, method, body, appData)} :
       \E served \in {fromTransport([RemotePeer EXCEPT
                                       !.requestIdCounter = sent.requestIdCounter],
                                    sent.out[1].data, sent.out[1].appData, env)} :
       \E after \in {sinkReturns(sent, served, env)} :
           /\ requestIdCounter' = after.requestIdCounter
           /\ requestTimeout' = after.requestTimeout
           /\ toTransport' = after.toTransport
           /\ entries' = after.entries
           /\ dispatcher' = after.dispatcher
           /\ pendingRequests' = after.pendingRequests
           /\ timeoutCheckInterval' = after.timeoutCheckInterval
           /\ promises' = after.promises
           /\ inflight' = after.inflight
           /\ out' = after.out
           /\ calls' = after.calls
           /\ cleanedAt' = after.cleanedAt
           /\ remote' = [served EXCEPT !.requestIdCounter = Wide(0)]
           /\ lastOp' = Op("wiredRequest", <<>>, appData, method, body, env)
           /\ UNCHANGED <<now, codec>>

\* What the server's handler does, and whether the client can unpack the
\* body of the Response.
WiredEnvs ==
    SyncEnvs \cup {[ThrowEnv EXCEPT !.result = "value", !.resBody = PackedBody,
                                   !.resOk = FALSE]}

NextWire ==
    \/ \E cb \in {"server.fromTransport"} : RegisterToTransportCallback(cb)
    \/ \E cb \in {"client.fromTransport"} : RemoteRegisterToTransportCallback(cb)
    \/ \E method \in Methods, fn \in HandlerFns : RemoteRegisterHandler(method, fn)
    \/ \E method \in Methods : toTransport = NoSink /\ Request(method, PackedBody, "ctxA")
    \/ \E method \in Methods, env \in WiredEnvs :
         WiredRequest(method, PackedBody, "ctxA", env)
    \/ Advance
    \/ Tick
    \/ \E reason \in Reasons : Clean(reason)

WireSpec == Init /\ [][NextWire]_vars

\* ------------------------------------------------- a sink that throws
\* Inbound Requests and Notifications are dispatched to a peer whose sink
\* throws on its first call, on its first two calls, or not at all, while
\* the guard or the handler throws, the handler returns, or the promise the
\* handler returned is fulfilled or rejected later.

SinkThrowEnvs ==
    {[e EXCEPT !.sinkThrows = n, !.errText = BadText] :
        e \in CallEnvs \cup {[DefaultEnv EXCEPT !.result = "promise"]},
        n \in 0..MaxSinkThrows}

FromTransportSinkThrows ==
    \E type \in {MessageType_Request, MessageType_Notification},
       method \in {0, 3}, env \in SinkThrowEnvs :
        /\ IF HandlerOf(method) = 0 THEN env.guardFail = 0 /\ env.result = "undefined" /\ env.reqOk
           ELSE env.guardFail <= Len(entries[HandlerOf(method)].guards)
        /\ FromTransport(encodeMessage(type, Wide(1), method, PackedBody), "ctxA", env)

NextThrowingSink ==
    \/ \E cb \in {"sinkA"} : RegisterToTransportCallback(cb)
    \/ \E fn \in HandlerFns : entries = <<>> /\ RegisterHandler(0, fn)
    \/ \E fn \in {"g1"} : Len(entries) > 0 /\ AddGuard(Len(entries), GuardType_Guard, fn)
    \/ FromTransportSinkThrows
    \/ \E k \in 1..Len(inflight), env \in SinkThrowEnvs :
         /\ env.guardFail = 0 /\ env.reqOk /\ env.result # "promise"
         /\ HandlerSettled(k, env)
    \/ \E reason \in Reasons : Clean(reason)

ThrowingSinkSpec == Init /\ [][NextThrowingSink]_vars

\* ------------------------------------------------- the sweep
\* Requests are made at different times, answered or left to expire, while
\* the application assigns the public field requestTimeout between calls and
\* between sweeps.

SetRequestTimeout(timeout) ==
    /\ timeout # requestTimeout
    /\ Becomes([Peer EXCEPT !.requestTimeout = timeout],
               Op("setRequestTimeout", <<>>, "ctxA", 0, <<>>, DefaultEnv))

NextSweep ==
    \/ \E timeout \in {TimeQuantum, RequestTimeoutMs, RequestTimeoutMs + TimeQuantum} :
         SetRequestTimeout(timeout)
    \/ \E method \in Methods : Request(method, PackedBody, "ctxA")
    \/ FromTransportReply
    \/ Tick
    \/ Advance

SweepSpec == Init /\ [][NextSweep]_vars

\* ------------------------------------------------- the transport's context
\* Frames arrive from two connections, each with its own appData: Requests
\* and Notifications that are answered at once, fail, or wait for the promise
\* of their handler while frames of the other connection are dispatched, and
\* frames that do not decode.

AppDatas == {"ctxA", "ctxB"}

FromTransportWithAppData ==
    \E appData \in AppDatas :
        \/ \E type \in {MessageType_Request, MessageType_Notification}, id \in DispatchIds,
              method \in {0, UnknownMethod}, env \in CallEnvs :
               /\ IF HandlerOf(method) = 0 THEN env = DefaultEnv
                  ELSE env.guardFail <= Len(entries[HandlerOf(method)].guards)
               /\ FromTransport(encodeMessage(type, id, method, PackedBody), appData, env)
        \/ \E data \in MalformedFrames : FromTransport(data, appData, DefaultEnv)

NextAppData ==
    \/ \E cb \in {"sinkA"} : RegisterToTransportCallback(cb)
    \/ \E fn \in HandlerFns : entries = <<>> /\ RegisterHandler(0, fn)
    \/ \E fn \in {"g1"} : Len(entries) > 0 /\ AddGuard(Len(entries), GuardType_Guard, fn)
    \/ FromTransportWithAppData
    \/ \E k \in 1..Len(inflight), env \in SyncEnvs : HandlerSettled(k, env)

AppDataSpec == Init /\ [][NextAppData]_vars

\* ------------------------------------------------- the codec functions
\* The module-level functions applied to arguments of their whole domain: the
\* ends of each range, values on both sides of every byte boundary, and a body
\* whose length needs two bytes.

PeerUnchanged ==
    UNCHANGED <<requestIdCounter, requestTimeout, toTransport, entries, dispatcher,
                pendingRequests, timeoutCheckInterval, promises, inflight, now, out,
                calls, lastOp, cleanedAt, remote>>

CodecTypes == {0, 1, 2, 3, 4, 128, 255}
CodecIds ==
    {<<0, 0>>, <<0, 1>>, <<0, 255>>, <<0, 256>>, <<0, 65535>>, <<1, 0>>, <<255, 65535>>,
     <<256, 0>>, <<32767, 65535>>, <<32768, 0>>, <<65535, 65535>>}
CodecMethods == {0, 1, 255, 256, 65535}
LongBody == [i \in 1..LongBodyLen |-> (i * 7) % 256]
CodecBodies == {<<>>, <<0>>, <<255>>, <<1, 2, 3>>, PackedBody, LongBody}

\* The ids encodeErrorResponse is called with: a request's id, or -1.
ErrorIds == {<<0, 0>>, <<0, 1>>, <<32768, 0>>, <<65535, 65535>>, <<-1, 65535>>}
MinInt32 == -2147483647 - 1
ErrorCodes ==
    {0, 1, -1, 255, 256, -256, 1000, 1007, -1007, 65535, 65536, -65536, 16777216,
     2147483647, -2147483647, MinInt32}
\* '', 'oops', NUL, 'e' with acute, the euro sign, U+FFFD, U+1F600 as a
\* surrogate pair, each surrogate of it alone, and U+FEFF first and later.
ErrorMessages ==
    {<<>>, <<111, 111, 112, 115>>, <<0>>, <<233>>, <<97, 8364>>, <<65533>>,
     <<55357, 56832>>, <<55357>>, <<56832, 97>>, <<97, 55357>>,
     <<65279, 111, 111, 112, 115>>, <<111, 65279>>, <<65279>>, <<65279, 65279>>}

\* The arguments of a call of encodeMessage or of encodeErrorResponse: any of
\* the values above.
CodecInit ==
    /\ InitPeer
    /\ \/ \E type \in CodecTypes, id \in CodecIds, method \in CodecMethods,
             body \in CodecBodies :
             codec = [NoCall EXCEPT !.encoder = "encodeMessage", !.type = type,
                                    !.id = id, !.method = method, !.body = body]
       \/ \E id \in ErrorIds, code \in ErrorCodes, message \in ErrorMessages :
             codec = [NoCall EXCEPT !.encoder = "encodeErrorResponse", !.id = id,
                                    !.code = code, !.message = message]

EncodeMessage ==
    /\ codec.fn = "none" /\ codec.encoder = "encodeMessage"
    /\ codec' = [codec EXCEPT !.fn = "encodeMessage",
                              !.frame = encodeMessage(codec.type, codec.id, codec.method,
                                                      codec.body)]
    /\ PeerUnchanged

EncodeErrorResponse ==
    /\ codec.fn = "none" /\ codec.encoder = "encodeErrorResponse"
    /\ codec' = [codec EXCEPT !.fn = "encodeErrorResponse",
                              !.frame = encodeErrorResponse(codec.id, codec.code,
                                                            codec.message)]
    /\ PeerUnchanged

DecodeMessage ==
    /\ codec.fn \in {"encodeMessage", "encodeErrorResponse"}
    /\ codec' = [codec EXCEPT !.fn = "decodeMessage",
                              !.decoded = decodeMessage(codec.frame)]
    /\ PeerUnchanged

\* encodeMessage applied to the fields decodeMessage returned.
EncodeDecoded ==
    /\ codec.fn = "decodeMessage" /\ codec.encoder = "encodeMessage"
    /\ codec.decoded.ok
    /\ codec' = [codec EXCEPT !.fn = "encodeMessage",
                              !.reencoded = encodeMessage(codec.decoded.type,
                                                          codec.decoded.id,
                                                          codec.decoded.method,
                                                          codec.decoded.body)]
    /\ PeerUnchanged

\* decodeErrorResponse applied to the body of a decoded ErrorResponse.
DecodeErrorResponse ==
    /\ codec.fn = "decodeMessage" /\ codec.encoder = "encodeErrorResponse"
    /\ codec.decoded.ok
    /\ codec' = [codec EXCEPT !.fn = "decodeErrorResponse",
                              !.error = decodeErrorResponse(codec.decoded.body)]
    /\ PeerUnchanged

NextCodec ==
    \/ EncodeMessage
    \/ EncodeErrorResponse
    \/ DecodeMessage
    \/ EncodeDecoded
    \/ DecodeErrorResponse

CodecSpec == CodecInit /\ [][NextCodec]_vars

\* ------------------------------------------------------------------ claims

\* The frame of the last fromTransport call, decoded.
LastMsg == decodeMessage(lastOp.data)
NextMsg == decodeMessage(lastOp'.data)

IsReply(msg) ==
    msg.ok /\ (msg.type = MessageType_Response \/ msg.type = MessageType_ErrorResponse)

\* clean has run and no sink was registered since.
Cleaned == cleanedAt # NotCleaned
\* Promise p belongs to a request call made after that clean.
AfterClean(p) == Cleaned /\ p > cleanedAt

\* The promise is still pending / was rejected with the given code.
IsPending(p) == IF p \in 1..Len(promises) THEN promises[p].state = "pending" ELSE FALSE
IsSettled(p) == IF p \in 1..Len(promises) THEN promises[p].state # "pending" ELSE FALSE
RejectedWith(p, code) ==
    IF p \in 1..Len(promises)
    THEN /\ promises[p].state = "rejected"
         /\ promises[p].value.kind = "error"
         /\ promises[p].value.code = code
         /\ promises[p].settleCalls = 1
    ELSE FALSE
InTable(p) == \E i \in 1..Len(pendingRequests) : pendingRequests[i].p = p

\* The pending table without the entry of the given id, order kept.
Without(pend, id) == SelectSeq(pend, LAMBDA e : ~(e.id = id))

\* C1: in every reachable state, re-entrant delivery from inside the sink
\* included, the timeout checker is scheduled if and only if the pending
\* table is non-empty.
C1_CheckerIffPending ==
    timeoutCheckInterval.set <=> (Len(pendingRequests) > 0)

\* A reply delivered from inside the sink has emptied the table again and
\* stopped the checker the same request call had started.
C1_Witness ==
    /\ lastOp.op = "requestLoopback"
    /\ IsReply(LastMsg)
    /\ Len(promises) = 1
    /\ promises[1].state # "pending"
    /\ pendingRequests = <<>>
    /\ ~timeoutCheckInterval.set

\* The timestamp the pending table holds for promise p.
TimestampOf(p) ==
    pendingRequests[CHOOSE i \in 1..Len(pendingRequests) : pendingRequests[i].p = p].timestamp

\* C2: requests that are never answered (and no clean): every one of them is
\* rejected with REQUEST_TIMEOUT (1005) and with nothing else, exactly once,
\* no earlier than its deadline (enqueue time + timeout) and at most one check
\* interval after it, which is within the claimed timeout + interval of the
\* deadline; and the pending table ends empty.
C2_UnansweredRequestsTimeOut ==
    /\ [][\A p \in 1..Len(promises) :
            (IsPending(p) /\ promises'[p].state # "pending")
            => /\ promises'[p].state = "rejected"
               /\ promises'[p].value.code = REQUEST_TIMEOUT_code
               /\ promises'[p].settleCalls = 1
               /\ now' - TimestampOf(p) >= requestTimeout
               /\ now' - (TimestampOf(p) + requestTimeout) <= TIMEOUT_CHECK_INTERVAL_MS
               /\ now' - (TimestampOf(p) + requestTimeout)
                    <= requestTimeout + TIMEOUT_CHECK_INTERVAL_MS]_vars
    /\ \A p \in 1..MaxRequests :
         IsPending(p) ~> (RejectedWith(p, REQUEST_TIMEOUT_code) /\ ~InTable(p))
    /\ <>[](pendingRequests = <<>>)

\* Two requests made at different times have both timed out, the second one
\* in a later sweep than the first.
C2_Witness ==
    /\ lastOp.op = "tick"
    /\ Len(promises) = 2
    /\ RejectedWith(1, REQUEST_TIMEOUT_code)
    /\ RejectedWith(2, REQUEST_TIMEOUT_code)
    /\ pendingRequests = <<>>
    /\ ~timeoutCheckInterval.set
    /\ now = 200

\* C3: a Response whose id matches a pending waiter removes exactly that
\* waiter (the others keep their place and their promises are untouched) and
\* settles it once: with void if the body is empty or the schema declares no
\* response type for the waiter's method, otherwise with the reader over the
\* body, or with an INVALID_REQUEST (1001) error carrying the id if unpacking
\* the body throws.
C3_ResponseSettlesWaiter ==
    [][(lastOp'.op = "fromTransport" /\ NextMsg.ok
        /\ NextMsg.type = MessageType_Response
        /\ \E i \in 1..Len(pendingRequests) : pendingRequests[i].id = NextMsg.id)
       => LET msg == NextMsg
              w == pendingRequests[CHOOSE i \in 1..Len(pendingRequests) :
                                      pendingRequests[i].id = msg.id]
              q == promises'[w.p]
          IN /\ pendingRequests' = Without(pendingRequests, msg.id)
             /\ Len(pendingRequests') = Len(pendingRequests) - 1
             /\ \A r \in 1..Len(promises) : r # w.p => promises'[r] = promises[r]
             /\ q.settleCalls = 1
             /\ IF Len(msg.body) = 0 \/ Schema[w.method].Res = NoCtor
                THEN q.state = "resolved" /\ q.value.kind = "void"
                ELSE IF lastOp'.env.resOk
                THEN /\ q.state = "resolved"
                     /\ q.value.kind = "reader"
                     /\ q.value.ctor = Schema[w.method].Res
                     /\ q.value.bytes = msg.body
                ELSE /\ q.state = "rejected"
                     /\ q.value.kind = "error"
                     /\ q.value.code = INVALID_REQUEST_code
                     /\ q.value.id = msg.id]_vars

\* A Response with a body that does not unpack has rejected one of two
\* waiters; the other is still in the table.
C3_Witness ==
    /\ lastOp.op = "fromTransport"
    /\ LastMsg.ok
    /\ LastMsg.type = MessageType_Response
    /\ Len(LastMsg.body) > 0
    /\ Len(pendingRequests) = 1
    /\ \E p \in 1..Len(promises) :
         /\ promises[p].id = LastMsg.id
         /\ RejectedWith(p, INVALID_REQUEST_code)
         /\ promises[p].value.id = LastMsg.id

\* C4: an ErrorResponse whose id matches a pending waiter removes that waiter,
\* stops the checker if the table became empty, and rejects the waiter with
\* the code read signed from the body, the message decoded from the rest of
\* the body and the frame's id; the frame's method field is not consulted.
C4_ErrorResponseRejectsWaiter ==
    [][(lastOp'.op = "fromTransport" /\ NextMsg.ok
        /\ NextMsg.type = MessageType_ErrorResponse
        /\ \E i \in 1..Len(pendingRequests) : pendingRequests[i].id = NextMsg.id)
       => LET msg == NextMsg
              w == pendingRequests[CHOOSE i \in 1..Len(pendingRequests) :
                                      pendingRequests[i].id = msg.id]
              q == promises'[w.p]
          IN /\ pendingRequests' = Without(pendingRequests, msg.id)
             /\ timeoutCheckInterval'.set <=> (Len(pendingRequests') > 0)
             /\ q.state = "rejected"
             /\ q.settleCalls = 1
             /\ q.value.kind = "error"
             /\ q.value.id = msg.id
             /\ msg.body = <<249, 255, 255, 255, 98, 97, 100>>
                  => (q.value.code = -7 /\ q.value.message = <<98, 97, 100>>)]_vars

\* An ErrorResponse whose method field differs from the waiter's method has
\* rejected the last waiter with code -7 and 'bad'; the checker is stopped.
C4_Witness ==
    /\ lastOp.op = "fromTransport"
    /\ LastMsg.ok
    /\ LastMsg.type = MessageType_ErrorResponse
    /\ LastMsg.method = 3
    /\ pendingRequests = <<>>
    /\ ~timeoutCheckInterval.set
    /\ \E p \in 1..Len(promises) :
         /\ promises[p].id = LastMsg.id
         /\ RejectedWith(p, -7)
         /\ promises[p].value.message = BadText
         /\ out = <<>>

\* C5: a Response or ErrorResponse whose id matches no pending waiter is
\* dropped: pending table, checker, dispatcher and promises are unchanged, no
\* guard or handler is invoked and no frame reaches the sink.
C5_StrayReplyDropped ==
    [][(lastOp'.op = "fromTransport" /\ IsReply(NextMsg)
        /\ \A i \in 1..Len(pendingRequests) : pendingRequests[i].id # NextMsg.id)
       => /\ pendingRequests' = pendingRequests
          /\ timeoutCheckInterval' = timeoutCheckInterval
          /\ dispatcher' = dispatcher
          /\ entries' = entries
          /\ promises' = promises
          /\ calls' = <<>>
          /\ out' = <<>>]_vars

\* A reply with an id that was never given out arrived while a waiter was
\* pending, a sink was set and a handler was registered.
C5_Witness ==
    /\ lastOp.op = "fromTransport"
    /\ IsReply(LastMsg)
    /\ LastMsg.id = UnknownId
    /\ Len(pendingRequests) > 0
    /\ toTransport # NoSink
    /\ dispatcher[0] # 0

\* C6: a promise is settled at most once: resolve / reject is called at most
\* once on it, and once it is settled it stays as it is; its waiter is in the
\* table exactly while it is pending, so a later Response or ErrorResponse with
\* the same id finds nothing, changes nothing and emits nothing.
C6_SettledAtMostOnce ==
    [][\A p \in 1..Len(promises) :
         /\ promises'[p].settleCalls <= 1
         /\ IsPending(p) <=> InTable(p)
         /\ IsSettled(p)
              => /\ promises'[p] = promises[p]
                 /\ (lastOp'.op = "fromTransport" /\ IsReply(NextMsg)
                     /\ NextMsg.id = promises[p].id)
                      => (pendingRequests' = pendingRequests /\ out' = <<>>)]_vars

\* The callee's Response arrives after the caller has already timed out.
C6_Witness ==
    /\ lastOp.op = "fromTransport"
    /\ LastMsg.ok
    /\ LastMsg.type = MessageType_Response
    /\ \E p \in 1..Len(promises) :
         /\ promises[p].id = LastMsg.id
         /\ RejectedWith(p, REQUEST_TIMEOUT_code)

\* The type and id of the frame the k-th sink call of the step was given.
EmittedMsg(k) == decodeMessage(out'[k].data)

\* C7: right after clean the pending table and the dispatcher are empty, the
\* checker is stopped and the sink is null, whatever the state before; clean
\* emits nothing, nothing is emitted while no sink is registered again, and a
\* Request frame emitted by any step carries the id that step allocated, never
\* the id of a waiter that existed before.
C7_CleanLeavesPeerInert ==
    [][/\ lastOp'.op = "clean"
            => /\ pendingRequests' = <<>>
               /\ \A m \in DOMAIN dispatcher' : dispatcher'[m] = 0
               /\ ~timeoutCheckInterval'.set
               /\ toTransport' = NoSink
               /\ out' = <<>>
       /\ (Cleaned /\ Cleaned') => out' = <<>>
       /\ \A k \in 1..Len(out') :
            EmittedMsg(k).type = MessageType_Request
              => /\ EmittedMsg(k).id = requestIdCounter'
                 /\ requestIdCounter' # requestIdCounter
                 /\ \A p \in 1..Len(promises) : promises[p].id # EmittedMsg(k).id]_vars

\* clean has run with two waiters pending and a handler registered.
C7_Witness ==
    /\ lastOp.op = "clean"
    /\ Len(promises) = 2
    /\ RejectedWith(1, INTERNAL_ERROR_code)
    /\ RejectedWith(2, INTERNAL_ERROR_code)
    /\ Len(entries) > 0
    /\ pendingRequests = <<>>
    /\ toTransport = NoSink

\* C8: clean(reason) rejects every waiter pending at the call, each once, with
\* INTERNAL_ERROR (1004), id -1 and reason as the detail message, and leaves
\* the other promises alone; a promise rejected by clean never changes again.
C8_CleanRejectsAllPending ==
    [][/\ lastOp'.op = "clean"
            => \A p \in 1..Len(promises) :
                 IF InTable(p)
                 THEN /\ promises'[p].state = "rejected"
                      /\ promises'[p].settleCalls = 1
                      /\ promises'[p].value =
                           [kind |-> "error", code |-> INTERNAL_ERROR_code,
                            message |-> INTERNAL_ERROR_message, id |-> <<-1, 65535>>,
                            errorMessage |-> lastOp'.text, ctor |-> NoCtor,
                            bytes |-> <<>>]
                 ELSE promises'[p] = promises[p]
       /\ \A p \in 1..Len(promises) :
            (RejectedWith(p, INTERNAL_ERROR_code) \/ promises[p].settleCalls > 1)
              => promises'[p] = promises[p]]_vars

\* A waiter rejected by clean stays rejected with 1004 and 'done' when its
\* Response arrives later.
C8_Witness ==
    /\ lastOp.op = "fromTransport"
    /\ IsReply(LastMsg)
    /\ \E p \in 1..Len(promises) :
         /\ promises[p].id = LastMsg.id
         /\ RejectedWith(p, INTERNAL_ERROR_code)
         /\ promises[p].value.errorMessage = <<100, 111, 110, 101>>

\* C9: a request made after clean, with no sink registered again, still
\* allocates a waiter and emits no frame, and the waiter does not leak: it is
\* eventually removed from the pending table and its promise settled.
C9_RequestAfterCleanDoesNotLeak ==
    /\ [][(lastOp'.op = "request" /\ Cleaned /\ Cleaned')
            => /\ Len(pendingRequests') = Len(pendingRequests) + 1
               /\ Len(promises') = Len(promises) + 1
               /\ promises'[Len(promises')].state = "pending"
               /\ out' = <<>>]_vars
    /\ \A p \in 1..MaxRequests :
         (AfterClean(p) /\ IsPending(p)) ~> (IsSettled(p) /\ ~InTable(p))

\* The only request of the run was made after clean, no sink was registered
\* since, and the tick that emptied the table rejected it.
C9_Witness ==
    /\ lastOp.op = "tick"
    /\ Len(promises) = 1
    /\ AfterClean(1)
    /\ toTransport = NoSink
    /\ RejectedWith(1, REQUEST_TIMEOUT_code)
    /\ pendingRequests = <<>>

\* C10 as stated: a waiter created by a request after clean stays pending for
\* as long as no sink is registered again.  Stated for the steps in which the
\* peer is neither cleaned again nor handed a frame, which is all the claim
\* needs to fail.
C10_StaysPendingForever ==
    [][\A p \in 1..Len(promises) :
         (AfterClean(p) /\ IsPending(p) /\ Cleaned' /\ toTransport' = NoSink
          /\ lastOp'.op \notin {"clean", "fromTransport"})
           => promises'[p].state = "pending"]_vars

\* C10 amended: request may be called after clean; with the sink left null it
\* adds a waiter, starts the checker and emits nothing, and the waiter does
\* not stay pending: it is never in the table longer than timeout + one check
\* interval, and the tick that removes it rejects it with REQUEST_TIMEOUT.
C10_RequestAfterCleanTimesOut ==
    [][/\ (lastOp'.op = "request" /\ Cleaned /\ Cleaned')
            => /\ Len(pendingRequests') = Len(pendingRequests) + 1
               /\ timeoutCheckInterval'.set
               /\ toTransport' = NoSink
               /\ out' = <<>>
       /\ \A i \in 1..Len(pendingRequests') :
            Cleaned' => now' - pendingRequests'[i].timestamp
                          <= requestTimeout + TIMEOUT_CHECK_INTERVAL_MS
       /\ \A p \in 1..Len(promises) :
            (AfterClean(p) /\ IsPending(p) /\ lastOp'.op = "tick"
             /\ promises'[p].state # "pending")
              => /\ promises'[p].state = "rejected"
                 /\ promises'[p].value.code = REQUEST_TIMEOUT_code
                 /\ now' - TimestampOf(p) >= requestTimeout]_vars

\* clean, then request at time 0 with no sink: rejected by the tick at 100.
C10_Witness ==
    /\ lastOp.op = "tick"
    /\ now = 100
    /\ AfterClean(Len(promises))
    /\ RejectedWith(Len(promises), REQUEST_TIMEOUT_code)
    /\ toTransport = NoSink
    /\ out = <<>>

\* The step is a fromTransport call; its frame decoded and is a Request / a
\* Notification.
Inbound == lastOp'.op = "fromTransport"
IsRequest(msg) == msg.ok /\ msg.type = MessageType_Request
IsNotification(msg) == msg.ok /\ msg.type = MessageType_Notification

\* The error body of the frame the k-th sink call of the step was given.
EmittedError(k) == decodeErrorResponse(EmittedMsg(k).body)

\* The step gave the sink exactly one frame, an ErrorResponse with the given
\* id and code, together with the appData of the inbound frame.
EmitsOneError(id, code) ==
    /\ Len(out') = 1
    /\ out'[1].sink = toTransport
    /\ out'[1].appData = lastOp'.appData
    /\ \A e \in {EmittedMsg(1)} :
         /\ e.ok
         /\ e.type = 3
         /\ e.id = id
         /\ decodeErrorResponse(e.body).code = code

\* C11: a Request for a method the dispatcher holds no handler for makes the
\* peer give the sink exactly one frame, an ErrorResponse with the request's
\* id and code 1002 (nothing if no sink is set); no guard or handler is
\* invoked and the pending table and the promises are unchanged.
C11_UnknownMethodAnswered ==
    [][Inbound => \A msg \in {NextMsg} :
       (IsRequest(msg) /\ HandlerOf(msg.method) = 0)
       => /\ IF toTransport # NoSink THEN EmitsOneError(msg.id, 1002)
             ELSE out' = <<>>
          /\ calls' = <<>>
          /\ pendingRequests' = pendingRequests
          /\ timeoutCheckInterval' = timeoutCheckInterval
          /\ promises' = promises]_vars

\* A Request for a method of the schema that has no handler, while another
\* method has one, arrived with the id of a pending waiter and was answered
\* with 'Method not found'.
C11_Witness ==
    /\ lastOp.op = "fromTransport"
    /\ LastMsg.ok
    /\ LastMsg.type = MessageType_Request
    /\ LastMsg.method = 3
    /\ dispatcher[3] = 0
    /\ dispatcher[0] # 0
    /\ \E i \in 1..Len(pendingRequests) : pendingRequests[i].id = LastMsg.id
    /\ Len(out) = 1
    /\ decodeErrorResponse(decodeMessage(out[1].data).body)
         = [code |-> 1002, message |-> METHOD_NOT_FOUND_message]


\* What a Notification step would have done had the frame carried another id.
WithId(msg, id) ==
    fromTransport(Peer, encodeMessage(msg.type, id, msg.method, msg.body),
                  lastOp'.appData, lastOp'.env)

\* C12: an inbound Notification never makes the peer give the sink a frame,
\* whatever happens to it (no handler, a body that does not unpack, a guard or
\* the handler throwing, the handler returning a value, undefined or a
\* promise), and it leaves no continuation behind that could emit one later;
\* the id it carries changes nothing of what the step does.
C12_NotificationNeverAnswered ==
    [][Inbound => \A msg \in {NextMsg} :
       IsNotification(msg)
       => /\ out' = <<>>
          /\ inflight' = inflight
          /\ pendingRequests' = pendingRequests
          /\ promises' = promises
          /\ \A id \in DispatchIds :
               \A other \in {WithId(msg, id)} :
                  /\ calls' = other.calls
                  /\ out' = other.out
                  /\ inflight' = other.inflight
                  /\ entries' = other.entries
                  /\ pendingRequests' = other.pendingRequests]_vars

\* A Notification with a non-zero id reached a handler behind a guard while a
\* sink was set; the handler returned a promise, and nothing was emitted or
\* left waiting.
C12_Witness ==
    /\ lastOp.op = "fromTransport"
    /\ LastMsg.ok
    /\ LastMsg.type = MessageType_Notification
    /\ LastMsg.id = Wide(1)
    /\ lastOp.env.result = "promise"
    /\ toTransport # NoSink
    /\ Len(calls) = 2
    /\ calls[2].kind = "handler"
    /\ out = <<>>
    /\ inflight = <<>>


\* The arguments a guard of the given kind is called with.
ArgShape(type, appData) ==
    IF type = 0 THEN <<"req", appData>> ELSE IF type = 1 THEN <<"req">> ELSE <<appData>>

\* C13: for an inbound Request or Notification with a handler and a body that
\* unpacks, the guards of the handler's entry are invoked in the order they
\* were appended, each once and with the arguments of its kind, up to the
\* first that throws; the handler is invoked once, after the last guard, if
\* none threw, and not at all otherwise.
C13_GuardsInOrderThenHandler ==
    [][Inbound => \A msg \in {NextMsg} :
       ((IsRequest(msg) \/ IsNotification(msg)) /\ HandlerOf(msg.method) # 0
        /\ lastOp'.env.reqOk)
       => LET handler == entries[HandlerOf(msg.method)]
              n == Len(handler.guards)
              f == lastOp'.env.guardFail
              ran == IF f \in 1..n THEN f ELSE n
          IN /\ Len(calls') = IF f \in 1..n THEN ran ELSE n + 1
             /\ \A i \in 1..ran :
                  /\ calls'[i].kind = "guard"
                  /\ calls'[i].fn = handler.guards[i].fn
                  /\ calls'[i].args = ArgShape(handler.guards[i].type, lastOp'.appData)
             /\ ~(f \in 1..n)
                  => /\ calls'[n + 1].kind = "handler"
                     /\ calls'[n + 1].fn = handler.fn
                     /\ calls'[n + 1].args = <<"req", lastOp'.appData>>]_vars

\* A request guard g2 appended before an appData guard g1: both were called,
\* in that order, then the handler.
C13_Witness ==
    /\ lastOp.op = "fromTransport"
    /\ LastMsg.ok
    /\ LastMsg.type = MessageType_Request
    /\ Len(calls) = 3
    /\ calls[1] = [kind |-> "guard", fn |-> "g2", args |-> <<"req">>]
    /\ calls[2] = [kind |-> "guard", fn |-> "g1", args |-> <<"ctxA">>]
    /\ calls[3] = [kind |-> "handler", fn |-> "h1", args |-> <<"req", "ctxA">>]


RemoveAt(seq, k) == [i \in 1..(Len(seq) - 1) |-> IF i < k THEN seq[i] ELSE seq[i + 1]]

\* A Request reached its handler: it has one, the body unpacked, no guard threw.
ReachesHandler(msg) ==
    /\ IsRequest(msg)
    /\ HandlerOf(msg.method) # 0
    /\ lastOp'.env.reqOk
    /\ ~(lastOp'.env.guardFail \in 1..Len(entries[HandlerOf(msg.method)].guards))

EmitsOneResponse(id, method, body) ==
    /\ Len(out') = 1
    /\ out'[1].sink = toTransport
    /\ out'[1].appData = lastOp'.appData
    /\ Len(out'[1].data) = 12 + Len(body)
    /\ SubSeq(out'[1].data, 9, 12) = <<Len(body), 0, 0, 0>>
    /\ \A e \in {EmittedMsg(1)} :
         /\ e.ok
         /\ e.type = 2
         /\ e.id = id
         /\ e.method = method
         /\ e.body = body

\* The body of the Response for a handler result: the packed value if there
\* is one and the schema declares a response type for the method, else empty.
ResponseBody(method, env) ==
    IF env.result = "value" /\ Schema[method].Res # NoCtor THEN env.resBody ELSE <<>>

\* C16: when the handler of a Request returns a value or undefined, at once or
\* through a promise that is fulfilled, the peer gives the sink exactly one
\* frame for the request (nothing if no sink is set): a Response with the id
\* and method of the request, whose body is the packed result if there is a
\* result and the schema declares a response type, and empty otherwise.  So
\* every Response emitted for a method declared void is 12 bytes with
\* body_len 0.
C16_HandlerResultAnswered ==
    [][/\ Inbound => \A msg \in {NextMsg} :
            (ReachesHandler(msg) /\ lastOp'.env.result \in {"value", "undefined"})
              => /\ IF toTransport # NoSink
                    THEN EmitsOneResponse(msg.id, msg.method,
                                          ResponseBody(msg.method, lastOp'.env))
                    ELSE out' = <<>>
                 /\ inflight' = inflight
       /\ (lastOp'.op = "handlerSettled" /\ lastOp'.env.result \in {"value", "undefined"})
            => \E k \in 1..Len(inflight) :
                 /\ inflight' = RemoveAt(inflight, k)
                 /\ IF toTransport # NoSink
                    THEN EmitsOneResponse(inflight[k].id, inflight[k].method,
                                          ResponseBody(inflight[k].method, lastOp'.env))
                    ELSE out' = <<>>
       /\ \A k \in 1..Len(out') : \A e \in {EmittedMsg(k)} :
            (e.type = 2 /\ e.method \in DOMAIN Schema /\ Schema[e.method].Res = NoCtor)
              => (Len(out'[k].data) = 12 /\ Len(e.body) = 0)]_vars

\* The handler of the void method 3 returned a value for the Request with id
\* 1: the sink was given the 12-byte Response with that id and method.
C16_Witness ==
    /\ lastOp.op = "fromTransport"
    /\ LastMsg.ok
    /\ LastMsg.type = MessageType_Request
    /\ LastMsg.method = 3
    /\ lastOp.env.result = "value"
    /\ Len(calls) > 0
    /\ calls[Len(calls)].kind = "handler"
    /\ Len(out) = 1
    /\ out[1].data = <<2, 0, 3, 0, 1, 0, 0, 0, 0, 0, 0, 0>>


\* The frame is shorter than the 12-byte header, or the body_len of its header
\* (bytes 8..11, little-endian, unsigned) exceeds the bytes that follow the
\* header.  Frames stay far below 65536 bytes.
IsMalformed(data) ==
    \/ Len(data) < 12
    \/ data[12] > 0
    \/ data[11] > 0
    \/ data[9] + 256 * data[10] > Len(data) - 12

\* C17: fromTransport with a frame shorter than 12 bytes, or whose body_len
\* exceeds the bytes after the header, gives the sink, if one is set, exactly
\* one frame: an ErrorResponse with id 0xFFFFFFFF, method 0 and code 1000; it
\* touches no waiter, invokes no guard or handler and dispatches nothing, so
\* the frame's type and id bytes have no effect.
C17_MalformedFrameAnswered ==
    [][(Inbound /\ IsMalformed(lastOp'.data))
       => /\ IF toTransport # NoSink
             THEN /\ EmitsOneError(<<65535, 65535>>, 1000)
                  /\ SubSeq(out'[1].data, 1, 8) = <<3, 0, 0, 0, 255, 255, 255, 255>>
             ELSE out' = <<>>
          /\ calls' = <<>>
          /\ pendingRequests' = pendingRequests
          /\ timeoutCheckInterval' = timeoutCheckInterval
          /\ promises' = promises
          /\ inflight' = inflight
          /\ entries' = entries
          /\ dispatcher' = dispatcher]_vars

\* A 13-byte frame announcing a 5-byte body, with the type and id of a
\* Response to a pending request, arrived while a sink was set: the waiter is
\* still pending and the sink was given 'Failed to parse message'.
C17_Witness ==
    /\ lastOp.op = "fromTransport"
    /\ lastOp.data = <<2, 0, 0, 0, 1, 0, 0, 0, 5, 0, 0, 0, 9>>
    /\ Len(pendingRequests) > 0
    /\ pendingRequests[1].id = Wide(1)
    /\ IsPending(1)
    /\ Len(out) = 1
    /\ out[1].data = <<3, 0, 0, 0, 255, 255, 255, 255, 27, 0, 0, 0, 232, 3, 0, 0>>
                       \o PARSE_ERROR_message


\* ---------------------------------------------------------------- C18
\* decodeMessage has returned for the frame of the last encodeMessage call.
MessageDecoded ==
    codec.encoder = "encodeMessage" /\ codec.fn = "decodeMessage"
\* encodeMessage has returned for the fields decodeMessage gave back.
MessageReencoded ==
    codec.encoder = "encodeMessage" /\ codec.fn = "encodeMessage" /\ codec.decoded.ok

\* C18: for every type in 0..255, id in 0..2^32-1, method in 0..65535 and
\* body, the frame encodeMessage builds is 12 + length(body) bytes long, its
\* reserved byte is 0 and its body_len field is length(body); decodeMessage of
\* the frame returns the same type, id, method and body; and encodeMessage of
\* the decoded fields gives the frame again, byte for byte.
C18_EncodeDecodeRoundTrip ==
    (codec.encoder = "encodeMessage" /\ codec.fn # "none")
    => /\ Len(codec.frame) = 12 + Len(codec.body)
       /\ codec.frame[2] = 0
       /\ codec.frame[9] + 256 * codec.frame[10] = Len(codec.body)
       /\ codec.frame[11] = 0 /\ codec.frame[12] = 0
       /\ SubSeq(codec.frame, 13, Len(codec.frame)) = codec.body
       /\ (MessageDecoded \/ MessageReencoded)
          => /\ codec.decoded.ok
             /\ codec.decoded.type = codec.type
             /\ codec.decoded.id = codec.id
             /\ codec.decoded.method = codec.method
             /\ codec.decoded.body = codec.body
       /\ MessageReencoded => codec.reencoded = codec.frame

\* A frame with the largest type, id and method and a body longer than 255
\* bytes has gone through decodeMessage and encodeMessage again.
C18_Witness ==
    /\ MessageReencoded
    /\ codec.type = 255 /\ codec.id = <<65535, 65535>> /\ codec.method = 65535
    /\ Len(codec.body) > 255
    /\ codec.reencoded = codec.frame


\* ---------------------------------------------------------------- C19
\* decodeErrorResponse has returned for the body of the frame that
\* encodeErrorResponse built.
ErrorDecoded ==
    codec.encoder = "encodeErrorResponse" /\ codec.fn = "decodeErrorResponse"

\* C19: for every signed 32-bit code and every message string,
\* decodeErrorResponse of the body of the frame encodeErrorResponse(id, code,
\* message) built returns the same code, negative codes included, and the
\* same message; the id and body_len of the header are read back unsigned,
\* an id written as -1 as 2^32 - 1.
C19_ErrorBodyRoundTrip ==
    ErrorDecoded
    => /\ codec.error.code = codec.code
       /\ codec.error.message = codec.message
       /\ codec.decoded.id = (IF codec.id = <<-1, 65535>> THEN <<65535, 65535>> ELSE codec.id)
       /\ codec.frame[9] + 256 * codec.frame[10] = Len(codec.decoded.body)
       /\ codec.frame[11] = 0 /\ codec.frame[12] = 0

\* A string no code unit of which is a surrogate without its partner.
RECURSIVE IsWellFormed(_)
IsWellFormed(s) ==
    IF s = <<>> THEN TRUE
    ELSE IF IsHighSurrogate(Head(s))
         THEN Len(s) >= 2 /\ IsLowSurrogate(s[2]) /\ IsWellFormed(Tail(Tail(s)))
         ELSE ~IsLowSurrogate(Head(s)) /\ IsWellFormed(Tail(s))

\* C19, the part of it the functions keep: the code comes back signed and the
\* id unsigned for every message; the message comes back unchanged when it is
\* well formed and does not begin with U+FEFF, and without its first code unit
\* when it is well formed and begins with U+FEFF.
C19_CodeAndIdRoundTrip ==
    ErrorDecoded
    => /\ codec.error.code = codec.code
       /\ codec.decoded.id = (IF codec.id = <<-1, 65535>> THEN <<65535, 65535>> ELSE codec.id)
       /\ IsWellFormed(codec.message)
          => codec.error.message =
                (IF codec.message # <<>> /\ codec.message[1] = 65279
                 THEN Tail(codec.message) ELSE codec.message)

\* The message U+FEFF 'oops' with code -1007 and id -1 has gone through
\* encodeErrorResponse, decodeMessage and decodeErrorResponse and has come back
\* as 'oops', with the code and the id as the claim says.
C19_Witness ==
    /\ ErrorDecoded
    /\ codec.message = <<65279, 111, 111, 112, 115>>
    /\ codec.code = -1007 /\ codec.id = <<-1, 65535>>
    /\ codec.error.message = <<111, 111, 112, 115>>
    /\ codec.error.code = -1007 /\ codec.decoded.id = <<65535, 65535>>


\* ---------------------------------------------------------------- C20
\* The id of the request a step answers: the id of the inbound frame, all
\* ones if the frame is malformed, or the id kept with the handler's promise
\* that the step settles.
CauseIds ==
    IF lastOp'.op = "fromTransport"
    THEN IF IsMalformed(lastOp'.data) THEN {<<65535, 65535>>}
         ELSE {<<lastOp'.data[7] + 256 * lastOp'.data[8],
                 lastOp'.data[5] + 256 * lastOp'.data[6]>>}
    ELSE IF lastOp'.op = "handlerSettled"
    THEN {inflight[k].id : k \in {j \in 1..Len(inflight) : inflight' = RemoveAt(inflight, j)}}
    ELSE {}

\* C20: every ErrorResponse frame the peer gives the sink, whichever path
\* built it (parse error, method not found, request body not decodable, guard
\* error, application error), has 0 in its method field whatever the method
\* of the request was, and carries the id of the request that caused it, all
\* ones for a parse error.
C20_ErrorResponseMethodZero ==
    [][\A k \in 1..Len(out') :
         (Len(out'[k].data) >= 12 /\ out'[k].data[1] = 3)
           => /\ out'[k].data[3] = 0 /\ out'[k].data[4] = 0
              /\ \A e \in {EmittedMsg(k)} : e.ok /\ e.method = 0 /\ e.id \in CauseIds]_vars

\* A guard threw for the Request with id 1 and method 3: the sink was given
\* an ErrorResponse with code 1006, id 1 and method 0.
C20_Witness ==
    /\ lastOp.op = "fromTransport"
    /\ Len(lastOp.data) >= 12
    /\ SubSeq(lastOp.data, 1, 8) = <<0, 0, 3, 0, 1, 0, 0, 0>>
    /\ Len(out) = 1
    /\ SubSeq(out[1].data, 1, 8) = <<3, 0, 0, 0, 1, 0, 0, 0>>
    /\ decodeErrorResponse(decodeMessage(out[1].data).body).code = 1006


\* ---------------------------------------------------------------- C21
\* The Notification frame for a method and a packed request: type 1, reserved
\* byte 0, the method, id 0, the length of the body, the body.
NotificationFrame(method, body) ==
    <<1, 0, method % 256, method \div 256, 0, 0, 0, 0, Len(body), 0, 0, 0>> \o body

\* The step leaves the pending table, the promises, the timeout checker and
\* the id counter as they were.
NoWaiterTouched ==
    /\ pendingRequests' = pendingRequests
    /\ promises' = promises
    /\ timeoutCheckInterval' = timeoutCheckInterval
    /\ requestIdCounter' = requestIdCounter

\* C21: notify gives the sink, if one is set, exactly one frame, a
\* Notification with id 0 and the given method and body, and registers no
\* waiter: the pending table, the timeout checker and the id counter stay as
\* they were.  encodeNotification returns the same frame, does not invoke the
\* sink and changes none of them either.
C21_NotifyEmitsOneFrame ==
    [][/\ lastOp'.op = "notify"
            => /\ IF toTransport # NoSink
                  THEN /\ Len(out') = 1
                       /\ out'[1].sink = toTransport
                       /\ out'[1].appData = lastOp'.appData
                       /\ out'[1].data = NotificationFrame(lastOp'.method, lastOp'.text)
                  ELSE out' = <<>>
               /\ NoWaiterTouched
       /\ lastOp'.op = "encodeNotification"
            => /\ out' = <<>>
               /\ lastOp'.data = NotificationFrame(lastOp'.method, lastOp'.text)
               /\ NoWaiterTouched
               /\ toTransport' = toTransport]_vars

\* notify for method 3 was called while a waiter was pending, the checker
\* armed and the counter not 0: the sink got one Notification with id 0.
C21_Witness ==
    /\ lastOp.op = "notify"
    /\ lastOp.method = 3
    /\ pendingRequests # <<>>
    /\ timeoutCheckInterval.set
    /\ requestIdCounter # <<0, 0>>
    /\ Len(out) = 1
    /\ out[1].data = <<1, 0, 3, 0, 0, 0, 0, 0, 4, 0, 0, 0, 4, 0, 0, 0>>


\* ---------------------------------------------------------------- C22
\* counter + 1 modulo 2^32.
NextId(counter) ==
    IF counter = <<65535, 65535>> THEN <<0, 0>>
    ELSE IF counter[2] = 65535 THEN <<counter[1] + 1, 0>>
    ELSE <<counter[1], counter[2] + 1>>

\* The Request frame for an id, a method and a packed request.
RequestFrame(id, method, body) ==
    <<0, 0, method % 256, method \div 256, id[2] % 256, id[2] \div 256, id[1] % 256,
      id[1] \div 256, Len(body), 0, 0, 0>> \o body

\* C22: each request call takes one new id from the counter, adds exactly one
\* waiter under that id, holding the method and the time of the call, so that
\* the pending table grows by exactly one entry; it starts the timeout
\* checker if the table was empty; and it gives the sink, if one is set,
\* exactly one frame, a Request with that id and method.
C22_RequestAddsOneWaiter ==
    [][lastOp'.op = "request"
         => \A id \in {NextId(requestIdCounter)} :
              /\ requestIdCounter' = id
              /\ ~MapHas(pendingRequests, id)
              /\ Len(pendingRequests') = Len(pendingRequests) + 1
              /\ SubSeq(pendingRequests', 1, Len(pendingRequests)) = pendingRequests
              /\ \A w \in {pendingRequests'[Len(pendingRequests')]} :
                   /\ w.id = id /\ w.method = lastOp'.method /\ w.timestamp = now
                   /\ w.p = Len(promises')
              /\ Len(promises') = Len(promises) + 1
              /\ SubSeq(promises', 1, Len(promises)) = promises
              /\ promises'[Len(promises')].state = "pending"
              /\ IF pendingRequests = <<>>
                 THEN /\ timeoutCheckInterval'.set
                      /\ ~timeoutCheckInterval.set => timeoutCheckInterval'.due = now + 100
                 ELSE timeoutCheckInterval' = timeoutCheckInterval
              /\ IF toTransport # NoSink
                 THEN /\ Len(out') = 1
                      /\ out'[1].sink = toTransport
                      /\ out'[1].appData = lastOp'.appData
                      /\ out'[1].data = RequestFrame(id, lastOp'.method, PackedBody)
                 ELSE out' = <<>>
              /\ toTransport' = toTransport]_vars

\* The second request of a peer, for method 3, was made with a sink set while
\* the first, made earlier, was pending: two waiters, the second with the
\* time of its call, the checker armed by the first call,
\* and one Request frame with the new id and method 3 given to the sink.
C22_Witness ==
    /\ lastOp.op = "request"
    /\ lastOp.method = 3
    /\ Len(pendingRequests) = 2
    /\ pendingRequests[2].id = requestIdCounter
    /\ pendingRequests[1].id # pendingRequests[2].id
    /\ pendingRequests[2].timestamp = now
    /\ pendingRequests[1].timestamp < now
    /\ timeoutCheckInterval.set
    /\ Len(out) = 1
    /\ SubSeq(out[1].data, 1, 4) = <<0, 0, 3, 0>>
    /\ decodeMessage(out[1].data).id = requestIdCounter


\* ---------------------------------------------------------------- C23
\* The ids of the waiters pending in a table.
IdsOf(pend) == {pend[i].id : i \in 1..Len(pend)}

\* C23: ids come from one counter of the process, shared by all instances and
\* advanced by 1 modulo 2^32 by each request call.  Request calls fewer than
\* 2^32 allocations apart, on one instance or on two, get different ids: no
\* two waiters pending at the same time, in one table or in both, have the
\* same id, and a request call never replaces an entry of the table.
C23_IdsUniqueAcrossPeers ==
    [][/\ lastOp'.op = "request"
            => /\ requestIdCounter' = NextId(requestIdCounter)
               /\ requestIdCounter' \notin IdsOf(pendingRequests) \cup IdsOf(remote.pendingRequests)
               /\ pendingRequests' = Append(pendingRequests, pendingRequests'[Len(pendingRequests')])
               /\ pendingRequests'[Len(pendingRequests')].id = requestIdCounter'
       /\ lastOp'.op = "remote.request"
            => /\ requestIdCounter' = NextId(requestIdCounter)
               /\ requestIdCounter' \notin IdsOf(pendingRequests) \cup IdsOf(remote.pendingRequests)
               /\ \A pend \in {remote'.pendingRequests} :
                    /\ pend = Append(remote.pendingRequests, pend[Len(pend)])
                    /\ pend[Len(pend)].id = requestIdCounter'
       /\ IdsOf(pendingRequests') \cap IdsOf(remote'.pendingRequests) = {}
       /\ Cardinality(IdsOf(pendingRequests')) = Len(pendingRequests')
       /\ Cardinality(IdsOf(remote'.pendingRequests)) = Len(remote'.pendingRequests)]_vars

\* Four request calls, two on each instance, starting with the counter at
\* 2^32 - 3: the ids 2^32 - 2, 2^32 - 1, 0 and 1 are all pending, two in each
\* table.
C23_Witness ==
    /\ requestIdCounter = <<0, 1>>
    /\ Len(pendingRequests) = 2
    /\ Len(remote.pendingRequests) = 2
    /\ IdsOf(pendingRequests) \cup IdsOf(remote.pendingRequests)
         = {<<65535, 65534>>, <<65535, 65535>>, <<0, 0>>, <<0, 1>>}


\* ---------------------------------------------------------------- C24
\* The frames the step gave to the sink of the instance that made it.
FramesSent ==
    IF lastOp'.op = "remote.request"
    THEN {remote'.out[k].data : k \in 1..Len(remote'.out)}
    ELSE {out'[k].data : k \in 1..Len(out')}

\* The id field of a frame is 0.
HasIdZero(data) == SubSeq(data, 5, 8) = <<0, 0, 0, 0>>

\* C24: id 0 is kept for Notifications: however many request calls were
\* made, the counter wrapping modulo 2^32, every Request frame sent has an id
\* other than 0, and a frame with id 0 is a Notification.
C24_IdZeroOnlyInNotifications ==
    [][(lastOp'.op \in {"request", "remote.request", "notify"})
         => \A data \in FramesSent :
              /\ data[1] = 0 => ~HasIdZero(data)
              /\ HasIdZero(data) => data[1] = 1]_vars

\* C24, the part of it generateRequestId keeps: every Notification frame has
\* id 0, and a Request frame has id 0 exactly when the counter stood at
\* 2^32 - 1 before the call.
C24_RequestIdZeroAtWrap ==
    [][(lastOp'.op \in {"request", "remote.request", "notify"})
         => \A data \in FramesSent :
              /\ data[1] = 1 => HasIdZero(data)
              /\ data[1] = 0 => (HasIdZero(data) <=> requestIdCounter = <<65535, 65535>>)]_vars

\* A request call made with the counter at 2^32 - 1 gave the sink a Request
\* frame with id 0, and its waiter is pending under id 0.
C24_Witness ==
    /\ lastOp.op = "request"
    /\ requestIdCounter = <<0, 0>>
    /\ Len(out) = 1
    /\ out[1].data[1] = 0
    /\ SubSeq(out[1].data, 5, 8) = <<0, 0, 0, 0>>
    /\ MapHas(pendingRequests, <<0, 0>>)


\* ---------------------------------------------------------------- C25
\* C25: registerToTransportCallback replaces the sink.  Every frame the peer
\* emits is handed to the sink registered at the moment it is emitted and to
\* no other, the Response or ErrorResponse of a handler promise included,
\* even if its request arrived under an earlier sink; while no sink is
\* registered (none set yet, or cleared by clean) nothing is emitted and the
\* operation completes as it does with a sink.
C25_FramesGoToCurrentSink ==
    [][/\ \A k \in 1..Len(out') : out'[k].sink = toTransport /\ out'[k].sink # NoSink
       /\ toTransport = NoSink => out' = <<>>
       /\ out' # <<>> => toTransport' = toTransport
       /\ lastOp'.op = "registerToTransportCallback"
            => toTransport' = lastOp'.cb /\ out' = <<>>
       /\ lastOp'.op = "clean" => toTransport' = NoSink /\ out' = <<>>
       /\ lastOp'.op = "handlerSettled"
            => /\ Len(inflight') = Len(inflight) - 1
               /\ Len(out') = (IF toTransport = NoSink THEN 0 ELSE 1)
       /\ lastOp'.op = "request"
            => /\ Len(pendingRequests') = Len(pendingRequests) + 1
               /\ Len(out') = (IF toTransport = NoSink THEN 0 ELSE 1)
       /\ lastOp'.op = "notify"
            => Len(out') = (IF toTransport = NoSink THEN 0 ELSE 1)
       /\ ~lastOp'.threw]_vars

\* The sink was replaced by sinkB after sinkA had been registered, and then
\* the promise of a handler was fulfilled: its Response went to sinkB.
C25_Witness ==
    /\ lastOp.op = "handlerSettled"
    /\ toTransport = "sinkB"
    /\ Len(out) = 1
    /\ out[1].sink = "sinkB"
    /\ out[1].data[1] = 2


\* ---------------------------------------------------------------- C26
\* The entry made by the latest registerHandler call for a method, 0 if there
\* was none.
LatestEntry(method) ==
    IF \E i \in 1..Len(entries) : entries[i].method = method
    THEN CHOOSE i \in 1..Len(entries) :
           /\ entries[i].method = method
           /\ \A j \in 1..Len(entries) : entries[j].method = method => j <= i
    ELSE 0

\* The functions a dispatch invoked, in order.
FnsCalled == [k \in 1..Len(calls') |-> calls'[k].fn]

\* The guard functions of an entry, in order.
GuardFnsOf(entry) == [k \in 1..Len(entry.guards) |-> entry.guards[k].fn]

\* C26: registerHandler for a method that has a handler replaces the entry.
\* A later Request or Notification for the method invokes the guards appended
\* through the handle of the latest registerHandler call, in order, then the
\* new handler, and nothing else: guards appended through an earlier handle,
\* and guards appended through a handle that clean has cut off, are not
\* invoked; after clean and before a new registerHandler nothing is invoked.
C26_HandlerReplaced ==
    [][/\ lastOp'.op = "registerHandler"
            => /\ entries' = Append(entries, [method |-> lastOp'.method, fn |-> lastOp'.cb,
                                              guards |-> <<>>])
               /\ dispatcher' = [dispatcher EXCEPT ![lastOp'.method] = Len(entries')]
       /\ lastOp'.op = "addGuard"
            => /\ dispatcher' = dispatcher
               /\ \E h \in 1..Len(entries) :
                    /\ entries'[h].guards
                         = Append(entries[h].guards, [type |-> 0, fn |-> lastOp'.cb])
                    /\ \A i \in 1..Len(entries) : i # h => entries'[i] = entries[i]
       /\ lastOp'.op = "clean"
            => /\ \A m \in DOMAIN dispatcher' : dispatcher'[m] = 0
               /\ \A i \in 1..Len(entries) :
                    entries'[i].guards =
                      (IF \E m \in DOMAIN dispatcher : dispatcher[m] = i
                       THEN <<>> ELSE entries[i].guards)
       /\ lastOp'.op = "fromTransport"
            => /\ entries' = entries /\ dispatcher' = dispatcher
               /\ IF dispatcher[0] = 0 THEN calls' = <<>>
                  ELSE /\ dispatcher[0] = LatestEntry(0)
                       /\ FnsCalled = Append(GuardFnsOf(entries[LatestEntry(0)]),
                                             entries[LatestEntry(0)].fn)]_vars

\* h1 was registered for method 0 and given the guard g1; h2 was registered
\* for the method and then g2 was appended through the handle of h1: the
\* Request that followed invoked h2 and nothing else.
C26_Witness ==
    /\ lastOp.op = "fromTransport"
    /\ Len(entries) = 2
    /\ entries[1].fn = "h1"
    /\ [k \in 1..Len(entries[1].guards) |-> entries[1].guards[k].fn] = <<"g1", "g2">>
    /\ entries[2].fn = "h2"
    /\ entries[2].guards = <<>>
    /\ dispatcher[0] = 2
    /\ [k \in 1..Len(calls) |-> calls[k].fn] = <<"h2">>


C28_UndecodableBodyAnswered ==
    [][Inbound => \A msg \in {NextMsg} :
         (msg.ok /\ msg.type \in {0, 1} /\ HandlerOf(msg.method) # 0 /\ ~lastOp'.env.reqOk)
           => /\ calls' = <<>>
              /\ inflight' = inflight
              /\ IF msg.type = 0 /\ toTransport # NoSink
                 THEN /\ EmitsOneError(msg.id, 1001)
                      /\ EmittedError(1).message = lastOp'.env.errText
                 ELSE out' = <<>>]_vars

\* The body of the Request with id 1 for a method with a handler and two
\* guards did not unpack: one ErrorResponse with id 1, code 1001 and the
\* message 'bad' was emitted, and neither a guard nor the handler was invoked.
C28_Witness ==
    /\ lastOp.op = "fromTransport"
    /\ ~lastOp.env.reqOk
    /\ Len(lastOp.data) >= 12
    /\ SubSeq(lastOp.data, 1, 2) = <<0, 0>>
    /\ Len(entries) = 1 /\ Len(entries[1].guards) = 2
    /\ calls = <<>>
    /\ Len(out) = 1
    /\ SubSeq(out[1].data, 1, 8) = <<3, 0, 0, 0, 1, 0, 0, 0>>
    /\ decodeErrorResponse(decodeMessage(out[1].data).body)
         = [code |-> 1001, message |-> <<98, 97, 100>>]


\* ---------------------------------------------------------------- C29
\* The inbound frame is a Request that fails before an answer is made: no
\* handler, a body that does not unpack, a guard that throws, a handler that
\* throws.
RequestFails(msg) ==
    /\ IsRequest(msg)
    /\ \/ HandlerOf(msg.method) = 0
       \/ ~lastOp'.env.reqOk
       \/ lastOp'.env.guardFail \in 1..Len(entries[HandlerOf(msg.method)].guards)
       \/ lastOp'.env.result = "throw"

\* C29: fromTransport never throws to its caller, whatever the bytes and
\* whatever the guards and the handler do, the sink not throwing: a frame
\* that does not decode, a body that does not unpack, a guard that throws and
\* a handler that throws are each caught and answered with one ErrorResponse
\* if the frame is a Request, and dropped if it is a Notification.
C29_FromTransportNeverThrows ==
    [][Inbound => \A msg \in {NextMsg} :
         /\ ~lastOp'.threw
         /\ (~msg.ok \/ RequestFails(msg)) /\ toTransport # NoSink
              => Len(out') = 1 /\ out'[1].data[1] = 3
         /\ IsNotification(msg) => out' = <<>>]_vars

\* What was thrown is null or undefined, by a guard in the chain or by the
\* handler, while a Request with a body that unpacks was dispatched.
NullishThrownAtRequest(msg) ==
    /\ IsRequest(msg) /\ HandlerOf(msg.method) # 0
    /\ lastOp'.env.reqOk /\ lastOp'.env.nullish
    /\ \/ lastOp'.env.guardFail \in 1..Len(entries[HandlerOf(msg.method)].guards)
       \/ lastOp'.env.result = "throw"

\* C29, the part of it the catch blocks keep: fromTransport throws only when
\* a guard or the handler of a Request throws null or undefined, and then it
\* emits nothing; in every other case it returns, a Request that fails and a
\* frame that does not decode are answered with one ErrorResponse, and a
\* Notification is dropped.  A promise rejected with null or undefined does
\* not make any call throw; no frame is emitted for it.
C29_ThrowsOnlyOnNullish ==
    [][/\ Inbound => \A msg \in {NextMsg} :
            /\ lastOp'.threw <=> (msg.ok /\ NullishThrownAtRequest(msg))
            /\ lastOp'.threw => out' = <<>>
            /\ (~msg.ok \/ RequestFails(msg)) /\ toTransport # NoSink /\ ~lastOp'.threw
                 => Len(out') = 1 /\ out'[1].data[1] = 3
            /\ IsNotification(msg) => out' = <<>>
       /\ lastOp'.op = "handlerSettled"
            => /\ ~lastOp'.threw
               /\ lastOp'.env.nullish => out' = <<>>]_vars

\* A guard of the handler threw null while a Request was dispatched with a
\* sink set: fromTransport threw, the handler was not invoked and no frame
\* was emitted.
C29_Witness ==
    /\ lastOp.op = "fromTransport"
    /\ lastOp.threw
    /\ lastOp.env.guardFail = 1
    /\ toTransport # NoSink
    /\ Len(calls) = 1 /\ calls[1].kind = "guard"
    /\ out = <<>>


\* C30: with the client's sink handing frames to the server's fromTransport
\* and the server's sink handing frames to the client's, a request for a
\* method the server has no handler for makes the server emit exactly one
\* frame, the ErrorResponse with the request's id, code 1002 and the text
\* "Method not found"; the promise request returns is rejected with an
\* FbRpcError of code 1002, that text and that id; the client's table is what
\* it was before the call, without the request, and the client's timer is
\* stopped when the table is empty and left alone when it is not.
MethodNotFoundText ==
    <<77, 101, 116, 104, 111, 100, 32, 110, 111, 116, 32, 102, 111, 117, 110, 100>>

MethodNotFoundFrame(id) ==
    <<3, 0, 0, 0, id[2] % 256, id[2] \div 256, id[1] % 256, id[1] \div 256, 20, 0, 0, 0,
      234, 3, 0, 0>> \o MethodNotFoundText

C30_UnknownMethodRejectsEndToEnd ==
    [][(lastOp'.op = "wiredRequest" /\ remote.toTransport # NoSink
        /\ remote.dispatcher[lastOp'.method] = 0)
       => \A id \in {NextId(requestIdCounter)} :
            /\ remote'.out = <<[sink |-> remote.toTransport,
                                data |-> MethodNotFoundFrame(id),
                                appData |-> lastOp'.appData]>>
            /\ out' = <<[sink |-> toTransport,
                         data |-> RequestFrame(id, lastOp'.method, lastOp'.text),
                         appData |-> lastOp'.appData]>>
            /\ promises' = Append(promises,
                                  [id |-> id, state |-> "rejected",
                                   value |-> [kind |-> "error", code |-> 1002,
                                              message |-> MethodNotFoundText,
                                              id |-> id, errorMessage |-> <<>>,
                                              ctor |-> NoCtor, bytes |-> <<>>],
                                   settleCalls |-> 1])
            /\ pendingRequests' = pendingRequests
            /\ ~ \E i \in 1..Len(pendingRequests') : pendingRequests'[i].id = id
            /\ timeoutCheckInterval' =
                 IF pendingRequests' = <<>> THEN NoTimer ELSE timeoutCheckInterval
            /\ remote'.promises = remote.promises
            /\ remote'.pendingRequests = remote.pendingRequests]_vars

C30_Witness ==
    /\ lastOp.op = "wiredRequest"
    /\ lastOp.method = 3
    /\ remote.dispatcher[3] = 0
    /\ remote.dispatcher[0] # 0
    /\ Len(remote.out) = 1
    /\ remote.out[1].data = MethodNotFoundFrame(requestIdCounter)
    /\ Len(promises) = 2
    /\ promises[2].state = "rejected"
    /\ promises[2].value.code = 1002
    /\ promises[2].value.id = requestIdCounter
    /\ Len(pendingRequests) = 1
    /\ timeoutCheckInterval.set


\* C31: a Response is matched to its waiter by id alone.  When the frame's
\* method field is not the method the request was sent with, the waiter with
\* the frame's id is still removed and its promise settled once, and what it
\* is settled with follows the schema entry of the waiter's method: void when
\* that method declares no response type (even if the frame's method does),
\* otherwise the reader built with the waiter's response constructor over the
\* body, or the 1001 error when the body does not unpack.
C31_ResponseCorrelatesById ==
    [][(lastOp'.op = "fromTransport" /\ NextMsg.ok
        /\ NextMsg.type = MessageType_Response
        /\ \E i \in 1..Len(pendingRequests) :
             pendingRequests[i].id = NextMsg.id /\ pendingRequests[i].method # NextMsg.method)
       => \A msg \in {NextMsg} :
          \A w \in {pendingRequests[CHOOSE i \in 1..Len(pendingRequests) :
                                       pendingRequests[i].id = msg.id]} :
          \A q \in {promises'[w.p]} :
             /\ ~ \E i \in 1..Len(pendingRequests') : pendingRequests'[i].id = msg.id
             /\ promises[w.p].state = "pending"
             /\ q.state # "pending"
             /\ q.settleCalls = 1
             /\ q.id = msg.id
             /\ IF Len(msg.body) = 0 THEN q.state = "resolved" /\ q.value.kind = "void"
                ELSE IF w.method = 3
                THEN q.state = "resolved" /\ q.value.kind = "void"
                ELSE IF lastOp'.env.resOk
                THEN /\ q.state = "resolved"
                     /\ q.value = [NoValue EXCEPT !.kind = "reader", !.ctor = "AddResponse",
                                                  !.bytes = msg.body]
                ELSE /\ q.state = "rejected"
                     /\ q.value.code = 1001
                     /\ q.value.id = msg.id]_vars

\* A request for method 0 was answered by a Response frame naming method 3,
\* which declares no response type, and was resolved with an AddResponse.
C31_Witness ==
    /\ lastOp.op = "fromTransport"
    /\ LastMsg.ok
    /\ LastMsg.type = MessageType_Response
    /\ LastMsg.method = 3
    /\ Len(LastMsg.body) > 0
    /\ \E p \in 1..Len(promises) :
         /\ promises[p].id = LastMsg.id
         /\ promises[p].state = "resolved"
         /\ promises[p].value.kind = "reader"
         /\ promises[p].value.ctor = "AddResponse"
    /\ ~ \E i \in 1..Len(pendingRequests) : pendingRequests[i].id = LastMsg.id


\* C32: for every inbound Request the sink is invoked at most once on behalf
\* of that request, at once or when the promise of its handler settles,
\* whatever the guards, the handler and the sink do.
C32_SinkInvokedAtMostOnce ==
    [][(lastOp'.op \in {"fromTransport", "handlerSettled"}) => Len(out') <= 1]_vars

\* What the code does: the sink is invoked once for a Request (never for a
\* Notification, never when the handler returned a promise that is still
\* outstanding), except that a sink which throws while it is handed the
\* Response of a handler that returned, or of a promise that was fulfilled,
\* is invoked a second time with an ErrorResponse of code 1007 carrying the
\* same id and the message of what the sink threw.
C32_SecondCallOnlyAfterSinkThrew ==
    [][(lastOp'.op \in {"fromTransport", "handlerSettled"} /\ toTransport # NoSink)
       => \A env \in {lastOp'.env} :
          \A isReq \in {lastOp'.op = "handlerSettled"
                        \/ (NextMsg.ok /\ NextMsg.type = MessageType_Request)} :
          \A answered \in {/\ env.reqOk
                           /\ env.guardFail = 0
                           /\ env.result \in {"value", "undefined"}
                           /\ (lastOp'.op = "fromTransport" => HandlerOf(NextMsg.method) # 0)} :
             /\ ~isReq => out' = <<>>
             /\ (isReq /\ env.result = "promise" /\ env.reqOk /\ env.guardFail = 0
                 /\ lastOp'.op = "fromTransport" /\ HandlerOf(NextMsg.method) # 0)
                  => out' = <<>>
             /\ (isReq /\ answered /\ env.sinkThrows >= 1)
                  => /\ Len(out') = 2
                     /\ out'[1].data[1] = MessageType_Response
                     /\ out'[2].data[1] = MessageType_ErrorResponse
                     /\ read32(out'[1].data, 4) = read32(out'[2].data, 4)
                     /\ decodeErrorResponse(decodeMessage(out'[2].data).body)
                          = [code |-> 1007, message |-> env.errText]
                     /\ lastOp'.op = "fromTransport"
                          => (lastOp'.threw <=> env.sinkThrows >= 2)
             /\ (isReq /\ ~(answered /\ env.sinkThrows >= 1)) => Len(out') <= 1]_vars

\* The handler of method 0 returned a value for a Request and the sink threw
\* while it was handed the Response: the sink was called again with the
\* ErrorResponse for the same id, and this time returned.
C32_Witness ==
    /\ lastOp.op = "fromTransport"
    /\ lastOp.env.result = "value"
    /\ lastOp.env.sinkThrows = 1
    /\ ~lastOp.threw
    /\ Len(out) = 2
    /\ out[1].data[1] = 2
    /\ out[2].data[1] = 3
    /\ read32(out[1].data, 4) = Wide(1)
    /\ read32(out[2].data, 4) = Wide(1)


\* C33: each run of the timeout checker (no time passes during it) removes exactly
\* the entries whose age, the time of the run minus the time of the request call, is at least
\* requestTimeout as it stands at that run, and rejects exactly their
\* promises with REQUEST_TIMEOUT (1005); the entries that stay are younger
\* than the timeout and keep their order, and their promises are untouched.
C33_SweepRemovesExactlyTheExpired ==
    [][lastOp'.op = "tick"
       => /\ pendingRequests'
               = SelectSeq(pendingRequests,
                           LAMBDA e : now - e.timestamp < requestTimeout)
          /\ \A i \in 1..Len(pendingRequests') :
               now - pendingRequests'[i].timestamp < requestTimeout
          /\ \A i \in 1..Len(pendingRequests) :
               \A e \in {pendingRequests[i]} :
                  IF now - e.timestamp >= requestTimeout
                  THEN /\ promises[e.p].state = "pending"
                       /\ promises'[e.p].state = "rejected"
                       /\ promises'[e.p].value.code = 1005
                       /\ promises'[e.p].settleCalls = 1
                  ELSE promises'[e.p] = promises[e.p]
          /\ Len(promises') = Len(promises)
          /\ now' = now
          /\ requestTimeout' = requestTimeout]_vars

\* One run of the checker expired the older of two waiters and kept the
\* younger one, after the timeout had been changed from its initial value.
C33_Witness ==
    /\ lastOp.op = "tick"
    /\ requestTimeout # 100
    /\ Len(promises) = 2
    /\ promises[1].state = "rejected"
    /\ promises[1].value.code = 1005
    /\ promises[2].state = "pending"
    /\ Len(pendingRequests) = 1
    /\ pendingRequests[1].p = 2
    /\ now - pendingRequests[1].timestamp < requestTimeout


C35_SyncAnswerInsideTheCall ==
    [][/\ Inbound => \A msg \in {NextMsg} :
            /\ (ReachesHandler(msg) /\ lastOp'.env.result # "promise")
                 => /\ inflight' = inflight
                    /\ IF toTransport = NoSink THEN out' = <<>>
                       ELSE /\ Len(out') = 1
                            /\ \A e \in {EmittedMsg(1)} :
                                 /\ e.ok
                                 /\ e.id = msg.id
                                 /\ e.type = (IF lastOp'.env.result = "throw" THEN 3 ELSE 2)
            /\ (IsRequest(msg) /\ ~ReachesHandler(msg) /\ toTransport # NoSink)
                 => /\ inflight' = inflight
                    /\ Len(out') = 1
                    /\ EmittedMsg(1).id = msg.id
                    /\ EmittedMsg(1).type = 3
            /\ IsNotification(msg) => out' = <<>>
       /\ lastOp'.op = "request"
            => /\ inflight' = inflight
               /\ toTransport # NoSink
                    => /\ Len(out') = 1
                       /\ EmittedMsg(1).type = 0
                       /\ EmittedMsg(1).id = requestIdCounter'
       /\ lastOp'.op = "handlerSettled"
            => \E k \in 1..Len(inflight) :
                 /\ inflight' = RemoveAt(inflight, k)
                 /\ toTransport # NoSink
                      => /\ Len(out') = 1
                         /\ EmittedMsg(1).id = inflight[k].id
                         /\ EmittedMsg(1).type \in {2, 3}
       /\ Len(out') <= 1]_vars

\* The Request with id 0 arrived while the Request with id 1 was waiting for
\* the promise of its handler; the handler threw for it, and the sink got the
\* ErrorResponse with id 0 in the same call.
C35_Witness ==
    /\ lastOp.op = "fromTransport"
    /\ lastOp.env.result = "throw"
    /\ Len(inflight) = 1
    /\ inflight[1].id = <<0, 1>>
    /\ Len(out) = 1
    /\ SubSeq(out[1].data, 1, 2) = <<3, 0>>
    /\ SubSeq(out[1].data, 5, 8) = <<0, 0, 0, 0>>
    /\ decodeMessage(lastOp.data).type = 0
    /\ decodeMessage(lastOp.data).id = <<0, 0>>


\* C36: request puts the waiter into the table and arms the checker before
\* it calls the sink.  With the two peers wired directly and a server that
\* answers inside the call (no handler, or a handler that returns or throws),
\* the answer finds the waiter: when request returns, its promise is settled,
\* resolved by a Response and rejected by an ErrorResponse, the table is what
\* it was before the call, and the checker is armed exactly if the table is
\* not empty.
C36_ReentrantAnswerFindsWaiter ==
    [][(lastOp'.op = "wiredRequest" /\ remote.toTransport # NoSink)
       => \A n \in {Len(promises')} :
            /\ n = Len(promises) + 1
            /\ promises'[n].id = requestIdCounter'
            /\ promises'[n].settleCalls = 1
            /\ Len(remote'.out) = 1
            /\ read32(remote'.out[1].data, 4) = requestIdCounter'
            /\ IF remote'.out[1].data[1] = 2
               THEN IF lastOp'.env.resOk \/ Len(remote'.out[1].data) = 12
                       \/ lastOp'.method = 3
                    THEN promises'[n].state = "resolved"
                    ELSE promises'[n].state = "rejected" /\ promises'[n].value.code = 1001
               ELSE /\ remote'.out[1].data[1] = 3
                    /\ promises'[n].state = "rejected"
                    /\ promises'[n].value.code
                         = (IF remote.dispatcher[lastOp'.method] = 0 THEN 1002 ELSE 1007)
                    /\ promises'[n].value.id = requestIdCounter'
            /\ pendingRequests' = pendingRequests
            /\ ~ \E i \in 1..Len(pendingRequests') :
                   pendingRequests'[i].id = requestIdCounter'
            /\ timeoutCheckInterval'.set <=> pendingRequests' # <<>>
            /\ SubSeq(promises', 1, Len(promises)) = promises]_vars

\* The server's handler for method 0 returned a value inside the client's
\* request call: the promise is resolved with the AddResponse, the table is
\* empty and the checker, armed during the call, is stopped.
C36_Witness ==
    /\ lastOp.op = "wiredRequest"
    /\ lastOp.method = 0
    /\ remote.dispatcher[0] # 0
    /\ Len(remote.out) = 1
    /\ remote.out[1].data[1] = 2
    /\ Len(promises) = 1
    /\ promises[1].state = "resolved"
    /\ promises[1].value.kind = "reader"
    /\ promises[1].value.ctor = "AddResponse"
    /\ pendingRequests = <<>>
    /\ ~timeoutCheckInterval.set


\* C37: every frame the peer emits because of an inbound frame is handed to
\* the sink with the appData of the fromTransport call that delivered that
\* frame.  For a Request whose handler returned a promise, the appData of its
\* call stays with the outstanding request while frames with another appData
\* are dispatched and answered, and the Response or ErrorResponse sent when
\* the promise settles carries the request's id and that appData.
C37_AnswerCarriesAppDataOfItsCall ==
    [][/\ Inbound
            => /\ \A k \in 1..Len(out') : out'[k].appData = lastOp'.appData
               /\ (IsRequest(NextMsg) /\ toTransport # NoSink
                   /\ ~(ReachesHandler(NextMsg) /\ lastOp'.env.result = "promise"))
                    => Len(out') = 1 /\ EmittedMsg(1).id = NextMsg.id
               /\ IF ReachesHandler(NextMsg) /\ lastOp'.env.result = "promise"
                  THEN /\ inflight' = Append(inflight, inflight'[Len(inflight')])
                       /\ inflight'[Len(inflight')].id = NextMsg.id
                       /\ inflight'[Len(inflight')].appData = lastOp'.appData
                  ELSE inflight' = inflight
       /\ lastOp'.op = "handlerSettled"
            => \E k \in 1..Len(inflight) :
                 /\ inflight' = RemoveAt(inflight, k)
                 /\ toTransport # NoSink
                      => /\ Len(out') = 1
                         /\ out'[1].appData = inflight[k].appData
                         /\ EmittedMsg(1).id = inflight[k].id
                         /\ EmittedMsg(1).type \in {2, 3}
       /\ lastOp'.op \notin {"fromTransport", "handlerSettled"} => inflight' = inflight]_vars

\* A Request that came with ctxB waits for the promise of its handler while
\* a Request that came with ctxA has been answered with ctxA.
C37_Witness ==
    /\ lastOp.op = "fromTransport"
    /\ lastOp.appData = "ctxA"
    /\ Len(out) = 1
    /\ out[1].appData = "ctxA"
    /\ out[1].data[1] = 2
    /\ Len(inflight) = 1
    /\ inflight[1].appData = "ctxB"
    /\ inflight[1].id # decodeMessage(lastOp.data).id


\* C38: an inbound frame that decodes and whose type byte is none of 0, 1, 2
\* and 3 is dropped, whatever its id, method and body are: fromTransport
\* returns without throwing, no guard and no handler is invoked, the sink is
\* given nothing, and the pending table, its promises, the checker, the
\* handlers and the outstanding handler promises are what they were.
C38_UnknownTypeDropped ==
    [][(Inbound /\ NextMsg.ok /\ NextMsg.type \notin {0, 1, 2, 3})
       => /\ out' = <<>>
          /\ calls' = <<>>
          /\ ~lastOp'.threw
          /\ pendingRequests' = pendingRequests
          /\ promises' = promises
          /\ timeoutCheckInterval' = timeoutCheckInterval
          /\ dispatcher' = dispatcher
          /\ entries' = entries
          /\ inflight' = inflight
          /\ toTransport' = toTransport
          /\ requestIdCounter' = requestIdCounter]_vars

\* A frame of type 255 arrived with the id of a pending waiter, the method of
\* a registered handler and a body, with a sink set: the waiter is still
\* pending and nothing was sent.
C38_Witness ==
    /\ lastOp.op = "fromTransport"
    /\ Len(lastOp.data) = 16
    /\ lastOp.data[1] = 255
    /\ decodeMessage(lastOp.data).ok
    /\ decodeMessage(lastOp.data).method = 0
    /\ dispatcher[0] # 0
    /\ toTransport # NoSink
    /\ \E i \in 1..Len(pendingRequests) :
         /\ pendingRequests[i].id = decodeMessage(lastOp.data).id
         /\ promises[pendingRequests[i].p].state = "pending"
    /\ timeoutCheckInterval.set
    /\ out = <<>>
    /\ calls = <<>>

=============================================================================
